---- MODULE Spec2Model ----
(***************************************************************************)
(* A model of genro-storage: the mount table and address parsing, the      *)
(* relative (derived) mounts with permissions, the smartsync dual-mode     *)
(* wrapper, the conditionally cached node properties and the skip-aware    *)
(* single-file copy.  Each part has its own next-state relation over the   *)
(* shared variables; the parts do not touch each other's variables.        *)
(***************************************************************************)
EXTENDS Naturals, Integers, Sequences, FiniteSets, TLC

VARIABLES
    \* ---- address parsing / navigation (manager.py, async_storage_manager.py, node.py)
    pnode,        \* the node last obtained: [api, mount, path] or NoNode
    perr,         \* outcome of the last attempt to obtain a node
    backendArg,   \* the path handed to the backend adapter by the last node operation
    \* ---- mounts with permissions (manager.py configure, relative mounts)
    mounts,       \* mount name -> backend record, or NoMount
    fs,           \* the parent file system: path -> "absent" | "dir" | content
    mnode,        \* the node in use: [mount, path, backend] or NoNode
    mlast,        \* the last operation through mnode and its outcome
    \* ---- smartsync (decorators.py) and the sync facade (storage_node.py)
    cachedHasLoop,\* wrapped method -> the closure variable _cached_has_loop
    inLoop,       \* is the calling thread inside a running event loop
    pending,      \* wrapped method -> number of coroutines returned and not yet awaited
    slast,        \* the last call and what it returned
    blocking,     \* wrapped method -> blocking calls that returned a result (history, capped)
    \* ---- cached node properties (node_decorators.py, async_storage_node.py)
    cnode,        \* the node: [made, cached, must_exist]
    memo,         \* property -> memoized value (the _cache_<name> attribute) or NoMemo
    cfile,        \* the backend's state of the node's path: [kind, size, mtime]
    clast,        \* the last operation on the node
    watch,        \* the property whose history is recorded
    firstSeen,    \* value of the first successful query of the watched property since
                  \* the last explicit invalidate/refresh, or NoMemo (history)
    fresh,        \* "new", "invalidated" or "queried": whether the watched property
                  \* was queried since the last explicit invalidate/refresh (history)
    \* ---- single-file copy with skip strategy (node.py)
    srcFile,      \* the source path: "absent" or the file's content
    dstFile,      \* the destination path: [kind, data, child]
    klast,        \* the last copy call: inputs, callbacks fired, outcome
    \* ---- directory copy with filters (node.py _copy_dir_with_skip)
    tsrc,         \* names of the files in the source directory
    tdst,         \* file name -> "absent" or the content, in the destination directory
    tlast,        \* the last directory copy: inputs, per-file log, outcome
    \* ---- version history of one file on a versioned S3 mount
    hist,         \* the versions of the file, oldest first: [version_id, last_modified, data]
    vnext,        \* number of versions written so far + 1 (next id and timestamp)
    snap,         \* the snapshot node made last: [bound, by, version_id]
    vlast,        \* the last operation on the file: inputs, result, state before
    \* ---- delete through the async node, the sync node and the local backend
    dproto,       \* the file system behind the mount: "memory" or "file"
    dfs,          \* path -> "absent" | "dir" | file content
    dlast,        \* the last operation: inputs, outcome, tree before, the call before it
    \* ---- write through the async node with parent resolution (node_decorators.py resolved)
    wfs,          \* path -> "absent" | "dir" | file content
    wlast,        \* the last operation: inputs, outcome, tree before
    \* ---- mount tables: AsyncStorageManager and StorageManager configure
    arec,         \* the configuration record (a dict) the caller holds: key -> value or "<absent>"
    atable,       \* AsyncStorageManager._mounts: name -> 0 or the number of its implementor
    aimpl,        \* the implementors created so far: [protocol, status, given]
    stable,       \* StorageManager._mounts: name -> "<none>" or [type, given]
    alast,        \* the last operation: inputs, outcome, whether it installed a mount
    \* ---- address strings: StorageManager.node and AsyncStorageManager.node on a whole address
    addr,         \* the address string last given to node(), as a list of pieces
    anode,        \* the node it returned: [api, mount, path] or NoNode
    aerr,         \* "ok" or the exception node() raised
    \* ---- protocol registries: ProviderRegistry.register / add_provider / get_protocol
    registry,     \* async_POC ProviderRegistry._registry: protocol name -> descriptor or NoDesc
    providers,    \* src/src ProviderRegistry.providers in insertion order: list of [name, protos]
    latest,       \* per registry and protocol name, the registration made last: [desc, by]
    rlast,        \* the last call: [op, api, name, desc, raised]
    \* ---- progress reporting of a directory copy (node.py _copy_dir_with_skip)
    gsrc,         \* the files of the source directory (a set of names)
    gdst,         \* the destination directory: name -> "absent" or content
    glast,        \* the last operation: [op, skip, progress, total, events]
    \* ---- writes started together on different addresses (asyncio.gather)
    cfs,          \* the tree of the mount: path -> "absent", "dir" or content
    ctask,        \* per task: [pc, data, create], pc the point it is suspended at
    coverlap,       \* whether a step ran while another task was suspended between its two steps
    \* ---- move of a file (node.py move: copy, then delete)
    mvfs,         \* the tree of the mount: path -> "absent", "dir" or content
    mvkind,       \* the type of the mount: "local" or "memory"
    mvlast        \* the last operation: [op, src, dst, raised, content]

vars == <<pnode, perr, backendArg, mounts, fs, mnode, mlast,
          cachedHasLoop, inLoop, pending, slast, blocking,
          cnode, memo, cfile, clast, watch, firstSeen, fresh,
          srcFile, dstFile, klast, tsrc, tdst, tlast,
          hist, vnext, snap, vlast, dproto, dfs, dlast,
          wfs, wlast,
          arec, atable, aimpl, stable, alast,
          addr, anode, aerr,
          registry, providers, latest, rlast,
          gsrc, gdst, glast,
          cfs, ctask, coverlap,
          mvfs, mvkind, mvlast>>

pathVars == <<pnode, perr, backendArg>>
permVars == <<mounts, fs, mnode, mlast>>
syncVars == <<cachedHasLoop, inLoop, pending, slast, blocking>>
cacheVars == <<cnode, memo, cfile, clast, watch, firstSeen, fresh>>
copyVars == <<srcFile, dstFile, klast>>
treeVars == <<tsrc, tdst, tlast>>
verVars == <<hist, vnext, snap, vlast>>
delVars == <<dproto, dfs, dlast>>
wrVars == <<wfs, wlast>>
mgrVars == <<arec, atable, aimpl, stable, alast>>
addrVars == <<addr, anode, aerr>>
regVars == <<registry, providers, latest, rlast>>
progVars == <<gsrc, gdst, glast>>
concVars == <<cfs, ctask, coverlap>>
moveVars == <<mvfs, mvkind, mvlast>>

\* the variables of all parts but one
notPathVars == <<permVars, syncVars, cacheVars, copyVars, treeVars, verVars, delVars, wrVars, mgrVars, addrVars, regVars, progVars, concVars, moveVars>>
notPermVars == <<pathVars, syncVars, cacheVars, copyVars, treeVars, verVars, delVars, wrVars, mgrVars, addrVars, regVars, progVars, concVars, moveVars>>
notSyncVars == <<pathVars, permVars, cacheVars, copyVars, treeVars, verVars, delVars, wrVars, mgrVars, addrVars, regVars, progVars, concVars, moveVars>>
notCacheVars == <<pathVars, permVars, syncVars, copyVars, treeVars, verVars, delVars, wrVars, mgrVars, addrVars, regVars, progVars, concVars, moveVars>>
notCopyVars == <<pathVars, permVars, syncVars, cacheVars, treeVars, verVars, delVars, wrVars, mgrVars, addrVars, regVars, progVars, concVars, moveVars>>
notTreeVars == <<pathVars, permVars, syncVars, cacheVars, copyVars, verVars, delVars, wrVars, mgrVars, addrVars, regVars, progVars, concVars, moveVars>>
notVerVars == <<pathVars, permVars, syncVars, cacheVars, copyVars, treeVars, delVars, wrVars, mgrVars, addrVars, regVars, progVars, concVars, moveVars>>
notDelVars == <<pathVars, permVars, syncVars, cacheVars, copyVars, treeVars, verVars, wrVars, mgrVars, addrVars, regVars, progVars, concVars, moveVars>>
notWrVars == <<pathVars, permVars, syncVars, cacheVars, copyVars, treeVars, verVars, delVars, mgrVars, addrVars, regVars, progVars, concVars, moveVars>>
notMgrVars == <<pathVars, permVars, syncVars, cacheVars, copyVars, treeVars, verVars, delVars, wrVars, addrVars, regVars, progVars, concVars, moveVars>>
notAddrVars == <<pathVars, permVars, syncVars, cacheVars, copyVars, treeVars, verVars, delVars, wrVars, mgrVars, regVars, progVars, concVars, moveVars>>
notRegVars == <<pathVars, permVars, syncVars, cacheVars, copyVars, treeVars, verVars, delVars, wrVars, mgrVars, addrVars, progVars, concVars, moveVars>>
notProgVars == <<pathVars, permVars, syncVars, cacheVars, copyVars, treeVars, verVars, delVars, wrVars, mgrVars, addrVars, regVars, concVars, moveVars>>
notConcVars == <<pathVars, permVars, syncVars, cacheVars, copyVars, treeVars, verVars, delVars, wrVars, mgrVars, addrVars, regVars, progVars, moveVars>>
notMoveVars == <<pathVars, permVars, syncVars, cacheVars, copyVars, treeVars, verVars, delVars, wrVars, mgrVars, addrVars, regVars, progVars, concVars>>

NoNode == [api |-> "none"]
NoPath == <<"<none>">>

(***************************************************************************)
(* Bounds                                                                  *)
(***************************************************************************)
MaxRawLen == 2      \* segments in an address given to node()
MaxPathLen == 3     \* segments in a node path reached through child()
MaxBlocking == 2    \* blocking calls counted per wrapped method
MaxClock == 2       \* modification times the backend hands out
MaxWrites == 5      \* versions written to the versioned file
MaxImpl == 2        \* implementors an AsyncStorageManager creates
MaxAddrLen == 4     \* pieces in an address string given to node()
MaxProviders == 2   \* providers added to a provider registry
MaxTasks == 3       \* writes started together

(***************************************************************************)
(* PART 1 - addresses.  A path string is represented by the list           *)
(* path.split('/'): "" stands for an empty segment (a leading, trailing or *)
(* doubled slash), ".." for a parent segment.                              *)
(***************************************************************************)
Segs == {"a", "b", "..", ""}

RECURSIVE SeqsUpTo(_, _)
SeqsUpTo(S, n) ==
    IF n = 0 THEN {<<>>}
    ELSE LET shorter == SeqsUpTo(S, n - 1)
         IN  shorter \cup {Append(s, x) : s \in {t \in shorter : Len(t) = n - 1}, x \in S}

RawPaths == SeqsUpTo(Segs, MaxRawLen)

HasDotDot(segs) == \E i \in DOMAIN segs : segs[i] = ".."

NonEmptySegs(segs) == SelectSeq(segs, LAMBDA s : s # "")

\* manager.py _normalize_path: ValueError on a ".." segment, else the non-empty segments
NormalizePath(raw) ==
    IF raw = <<>> THEN [err |-> "ok", path |-> <<>>]
    ELSE IF HasDotDot(raw) THEN [err |-> "ValueError", path |-> <<>>]
    ELSE [err |-> "ok", path |-> NonEmptySegs(raw)]

PathMounts == {"m"}           \* the mounts configured for this part
PathMountNames == {"m", "zz"} \* mount names a caller may give

\* manager.py StorageManager.node
ManagerNode(mount, raw) ==
    /\ mount \in PathMountNames /\ raw \in RawPaths
    /\ IF mount \notin PathMounts
       THEN /\ perr' = "StorageNotFoundError"
            /\ UNCHANGED <<pnode, backendArg>>
       ELSE LET r == NormalizePath(raw)
            IN  /\ perr' = r.err
                /\ pnode' = IF r.err = "ok"
                            THEN [api |-> "sync", mount |-> mount, path |-> r.path]
                            ELSE pnode
                /\ UNCHANGED backendArg
    /\ UNCHANGED notPathVars

\* async_storage_manager.py AsyncStorageManager.node: the relative path is
\* taken as split off after the first ':' and is stored as given.
AsyncManagerNode(mount, raw) ==
    /\ mount \in PathMountNames /\ raw \in RawPaths
    /\ IF mount \notin PathMounts
       THEN /\ perr' = "ValueError"
            /\ UNCHANGED <<pnode, backendArg>>
       ELSE /\ perr' = "ok"
            /\ pnode' = [api |-> "async", mount |-> mount, path |-> raw]
            /\ UNCHANGED backendArg
    /\ UNCHANGED notPathVars

\* pathlib: PurePosixPath(path) / name keeps ".." and drops empty segments
PosixJoin(path, name) == NonEmptySegs(path) \o NonEmptySegs(name)

\* node.py StorageNode.child
Child(name) ==
    /\ pnode # NoNode /\ pnode.api \in {"sync", "child"}
    /\ name \in RawPaths /\ name # <<>> /\ name[1] # ""
    /\ Len(pnode.path) + Len(name) <= MaxPathLen
    /\ pnode' = [api |-> "child", mount |-> pnode.mount, path |-> PosixJoin(pnode.path, name)]
    /\ perr' = "ok"
    /\ UNCHANGED backendArg
    /\ UNCHANGED notPathVars

\* node.py StorageNode.exists / async_storage_node.py AsyncStorageNode.exists:
\* the node's path is handed to the backend adapter
NodeExists ==
    /\ pnode # NoNode
    /\ backendArg' = pnode.path
    /\ UNCHANGED <<pnode, perr>>
    /\ UNCHANGED notPathVars

InitPath ==
    /\ pnode = NoNode
    /\ perr = "none"
    /\ backendArg = NoPath

NextPath ==
    \/ \E mt \in PathMountNames, raw \in RawPaths : ManagerNode(mt, raw)
    \/ \E mt \in PathMountNames, raw \in RawPaths : AsyncManagerNode(mt, raw)
    \/ \E name \in RawPaths : Child(name)
    \/ NodeExists

(***************************************************************************)
(* PART 2 - mounts, derived (relative) mounts and permissions.             *)
(* The parent file system is the tree of a LocalStorage base directory:    *)
(* fs maps a path to "absent", "dir" or a file's content.                  *)
(***************************************************************************)
NoMount == [kind |-> "none"]

MountNames == {"m", "pub"}
Data == {"x", "y"}
Perms == {"readonly", "readwrite", "delete"}
NoPerm == "<absent>"                   \* the config has no 'permissions' key
NodePaths == {<<"f">>}                 \* relative paths of the nodes used
Prefixes == {<<>>, <<"d">>}            \* relative_path of a derived mount
FsPaths == {<<>>, <<"f">>, <<"d">>, <<"d", "f">>}

Parent(p) == SubSeq(p, 1, Len(p) - 1)
IsPrefix(p, q) == Len(p) <= Len(q) /\ SubSeq(q, 1, Len(p)) = p
ProperAncestors(p) == {SubSeq(p, 1, n) : n \in 0..(Len(p) - 1)}

\* backends/local.py LocalStorage.exists
LocalExists(f, p) == f[p] # "absent"

\* backends/local.py LocalStorage.read_bytes
LocalReadBytes(f, p) ==
    IF f[p] = "absent" THEN [err |-> "FileNotFoundError", value |-> "<none>"]
    ELSE IF f[p] = "dir" THEN [err |-> "IsADirectoryError", value |-> "<none>"]
    ELSE [err |-> "ok", value |-> f[p]]

\* pathlib mkdir(parents=True, exist_ok=True) on the parent of p
WithParents(f, p) ==
    [q \in DOMAIN f |-> IF q \in ProperAncestors(p) /\ f[q] = "absent" THEN "dir" ELSE f[q]]

\* backends/local.py LocalStorage.write_bytes
LocalWriteBytes(f, p, data) ==
    IF \E q \in ProperAncestors(p) : f[q] \notin {"absent", "dir"}
    THEN [err |-> "NotADirectoryError", fs |-> f]
    ELSE IF f[p] = "dir" THEN [err |-> "IsADirectoryError", fs |-> f]
    ELSE [err |-> "ok", fs |-> [WithParents(f, p) EXCEPT ![p] = data]]

\* backends/local.py LocalStorage.delete
LocalDelete(f, p, recursive) ==
    IF f[p] = "absent" THEN [err |-> "ok", fs |-> f]
    ELSE IF f[p] # "dir" THEN [err |-> "ok", fs |-> [f EXCEPT ![p] = "absent"]]
    ELSE IF recursive
         THEN [err |-> "ok",
               fs |-> [q \in DOMAIN f |-> IF IsPrefix(p, q) THEN "absent" ELSE f[q]]]
         ELSE IF \E q \in DOMAIN f : Len(q) = Len(p) + 1 /\ IsPrefix(p, q) /\ f[q] # "absent"
              THEN [err |-> "ValueError", fs |-> f]
              ELSE [err |-> "ok", fs |-> [f EXCEPT ![p] = "absent"]]

\* backends/local.py LocalStorage.mkdir
LocalMkdir(f, p, parents, existOk) ==
    IF f[p] # "absent" /\ ~existOk THEN [err |-> "FileExistsError", fs |-> f]
    ELSE IF f[p] = "dir" THEN [err |-> "ok", fs |-> f]
    ELSE IF f[p] # "absent" THEN [err |-> "FileExistsError", fs |-> f]
    ELSE IF \E q \in ProperAncestors(p) : f[q] \notin {"absent", "dir"}
         THEN [err |-> "NotADirectoryError", fs |-> f]
    ELSE IF ~parents /\ f[Parent(p)] = "absent"
         THEN [err |-> "FileNotFoundError", fs |-> f]
    ELSE [err |-> "ok", fs |-> [WithParents(f, p) EXCEPT ![p] = "dir"]]

\* A mount configuration record: name, optional type, a path that is either
\* a directory or "parent:prefix", optional permissions.
Configs ==
    [name : {"m"}, type : {"local", "ftp", "<absent>"}, relative : {FALSE},
     parent : {"m"}, prefix : {<<>>}, permissions : Perms \cup {NoPerm}]
    \cup
    [name : {"pub"}, type : {"<absent>"}, relative : {TRUE},
     parent : {"m", "nope"}, prefix : Prefixes,
     permissions : Perms \cup {NoPerm, "bogus"}]

\* variant: the 'permissions' key of a derived mount is not honoured
ConfigPermissionsIgnored(cfg) == "delete"

\* manager.py:509  permissions = config.get('permissions', 'delete')
ConfigPermissions(cfg) ==
    IF cfg.permissions = NoPerm THEN "delete" ELSE cfg.permissions

\* 'name in self._mounts'
HasMount(mts, n) == n \in DOMAIN mts /\ mts[n] # NoMount

\* manager.py _configure_relative_mount
ConfigureRelativeMount(mts, cfg) ==
    IF ~HasMount(mts, cfg.parent)
    THEN [err |-> "StorageConfigError", mounts |-> mts]
    ELSE IF ConfigPermissions(cfg) \notin Perms
    THEN [err |-> "StorageConfigError", mounts |-> mts]
    ELSE [err |-> "ok",
          mounts |-> [mts EXCEPT ![cfg.name] =
                        [kind |-> "relative", parent |-> cfg.parent,
                         prefix |-> cfg.prefix, perm |-> ConfigPermissions(cfg),
                         given |-> cfg.permissions]]]

\* manager.py _configure_mount, type 'local': LocalStorage(path=...).  The
\* 'permissions' key of the configuration is not read; 'given' records it
\* for the properties only.
NativeBackend(cfg) == [kind |-> "native", given |-> cfg.permissions]

\* manager.py _configure_mount
ConfigureMount(mts, cfg) ==
    IF cfg.relative THEN ConfigureRelativeMount(mts, cfg)
    ELSE IF cfg.type = "<absent>" THEN [err |-> "StorageConfigError", mounts |-> mts]
    ELSE IF cfg.type = "local" THEN [err |-> "ok", mounts |-> [mts EXCEPT ![cfg.name] = NativeBackend(cfg)]]
    ELSE [err |-> "StorageConfigError", mounts |-> mts]

NoMLast == [op |-> "none", outcome |-> "none", value |-> "<none>", changed |-> FALSE]

\* manager.py StorageManager.configure, one record
Configure(cfg) ==
    /\ cfg \in Configs
    /\ LET r == ConfigureMount(mounts, cfg)
       IN  /\ mounts' = r.mounts
           /\ mlast' = [NoMLast EXCEPT !.op = "configure", !.outcome = r.err]
    /\ UNCHANGED <<fs, mnode>>
    /\ UNCHANGED notPermVars

\* manager.py StorageManager.node with node.py StorageNode.__init__:
\* the node keeps the backend its mount had when it was created
MountNode(mount, raw) ==
    /\ mount \in MountNames /\ raw \in NodePaths
    /\ IF mounts[mount] = NoMount
       THEN /\ mlast' = [NoMLast EXCEPT !.op = "node", !.outcome = "StorageNotFoundError"]
            /\ UNCHANGED mnode
       ELSE LET r == NormalizePath(raw)
            IN  /\ mlast' = [NoMLast EXCEPT !.op = "node", !.outcome = r.err]
                /\ mnode' = IF r.err = "ok"
                            THEN [api |-> "sync", mount |-> mount, path |-> r.path,
                                  backend |-> mounts[mount]]
                            ELSE mnode
    /\ UNCHANGED <<fs, mounts>>
    /\ UNCHANGED notPermVars

\* The permission level of a backend: a derived mount carries the level it
\* was configured with; a native mount of this manager carries none.
BackendPerm(b) == IF b.kind = "relative" THEN b.perm ELSE "<none>"

\* The facade of a derived mount: the level needed by an operation
Permits(perm, need) ==
    CASE perm = "<none>"    -> TRUE
      [] perm = "delete"    -> TRUE
      [] perm = "readwrite" -> need \in {"read", "write"}
      [] perm = "readonly"  -> need = "read"
      [] OTHER              -> FALSE

\* The facade of a derived mount: the parent path of a relative path
FullPath(b, p) == IF b.kind = "relative" THEN b.prefix \o p ELSE p

\* The facade of a derived mount, then backends/local.py: one backend call
\* of kind op made with relative path p
BackendCall(b, f, op, p, arg) ==
    LET need == IF op = "read" THEN "read" ELSE IF op = "delete" THEN "delete" ELSE "write"
        full == FullPath(b, p)
    IN  IF ~Permits(BackendPerm(b), need)
        THEN [err |-> "PermissionError", fs |-> f, value |-> "<none>"]
        ELSE CASE op = "read"   -> LET r == LocalReadBytes(f, full)
                                   IN  [err |-> r.err, fs |-> f, value |-> r.value]
               [] op = "write"  -> LET r == LocalWriteBytes(f, full, arg)
                                   IN  [err |-> r.err, fs |-> r.fs, value |-> "<none>"]
               [] op = "delete" -> LET r == LocalDelete(f, full, TRUE)
                                   IN  [err |-> r.err, fs |-> r.fs, value |-> "<none>"]
               [] op = "mkdir"  -> LET r == LocalMkdir(f, full, arg[1], arg[2])
                                   IN  [err |-> r.err, fs |-> r.fs, value |-> "<none>"]

NodeOp(op, arg) ==
    /\ mnode # NoNode
    /\ LET r == BackendCall(mnode.backend, fs, op, mnode.path, arg)
       IN  /\ fs' = r.fs
           /\ mlast' = [op |-> op, outcome |-> r.err, value |-> r.value,
                        changed |-> (r.fs # fs)]
    /\ UNCHANGED <<mounts, mnode>>
    /\ UNCHANGED notPermVars

\* node.py StorageNode.read_bytes
ReadBytes == NodeOp("read", "<none>")

\* node.py StorageNode.write_bytes
WriteBytes(data) == data \in Data /\ NodeOp("write", data)

\* node.py StorageNode.delete
Delete == NodeOp("delete", "<none>")

\* node.py StorageNode.mkdir
Mkdir(parents, existOk) == NodeOp("mkdir", <<parents, existOk>>)

InitPerm ==
    /\ mounts = [n \in MountNames |-> NoMount]
    /\ fs = [p \in FsPaths |-> IF p = <<>> THEN "dir" ELSE "absent"]
    /\ mnode = NoNode
    /\ mlast = NoMLast

NextPerm ==
    \/ \E cfg \in Configs : Configure(cfg)
    \/ \E mt \in MountNames, raw \in NodePaths : MountNode(mt, raw)
    \/ ReadBytes
    \/ \E d \in Data : WriteBytes(d)
    \/ Delete
    \/ \E pa \in BOOLEAN, eo \in BOOLEAN : Mkdir(pa, eo)

(***************************************************************************)
(* PART 3 - the smartsync wrapper (decorators.py) and the sync facade      *)
(* over the async node (storage_node.py).                                  *)
(***************************************************************************)
Methods == {"read", "write"}

\* What the wrapped coroutine's body does when it runs:
\*   "ok"         it returns its result
\*   "nested_run" it makes a blocking asyncio.run() call itself, which raises
\*                RuntimeError("asyncio.run() cannot be called from a running event loop")
\*   "raises"     it raises some other RuntimeError
Bodies == {"ok", "nested_run", "raises"}

\* asyncio.run(coro) where no loop is running: the body runs to its end
AsyncioRun(body) ==
    CASE body = "ok"         -> "result"
      [] body = "nested_run" -> "RuntimeError:running_loop"
      [] body = "raises"     -> "RuntimeError:other"

\* variant: the loop is looked for on every call, the cache is not consulted
WrapperRechecks(cached, hasLoop, body) ==
    IF hasLoop THEN [ret |-> "coroutine", cached |-> TRUE]
    ELSE LET r == AsyncioRun(body)
         IN  IF r = "RuntimeError:running_loop"
             THEN [ret |-> "RuntimeError:named", cached |-> cached]
             ELSE [ret |-> r, cached |-> cached]

\* variant: the first call that runs without a loop decides for all later
\* calls; a later call from inside a loop runs asyncio.run() and fails
WrapperNoLoopSticky(cached, hasLoop, body) ==
    IF cached THEN [ret |-> "coroutine", cached |-> cached]
    ELSE IF hasLoop THEN [ret |-> "RuntimeError:named", cached |-> cached]
    ELSE LET r == AsyncioRun(body)
         IN  IF r = "RuntimeError:running_loop"
             THEN [ret |-> "RuntimeError:named", cached |-> cached]
             ELSE [ret |-> r, cached |-> cached]

\* decorators.py smartsync.wrapper: what one call returns or raises, and the
\* new value of _cached_has_loop
Wrapper(cached, hasLoop, body) ==
    IF cached THEN [ret |-> "coroutine", cached |-> cached]
    ELSE IF hasLoop THEN [ret |-> "coroutine", cached |-> TRUE]
    ELSE LET r == AsyncioRun(body)
         IN  IF r = "RuntimeError:running_loop"
             THEN [ret |-> "RuntimeError:named", cached |-> cached]
             ELSE [ret |-> r, cached |-> cached]

NoSLast == [op |-> "none", method |-> "<none>", ctxLoop |-> FALSE, cachedBefore |-> FALSE,
            body |-> "<none>", ret |-> "<none>"]

Cap(n, max) == IF n < max THEN n + 1 ELSE max

\* a call of the wrapped method m whose body behaves as body
Call(m, body) ==
    /\ m \in Methods /\ body \in Bodies
    /\ LET r == Wrapper(cachedHasLoop[m], inLoop, body)
       IN  /\ cachedHasLoop' = [cachedHasLoop EXCEPT ![m] = r.cached]
           /\ pending' = IF r.ret = "coroutine"
                         THEN [pending EXCEPT ![m] = @ \cup {body}]
                         ELSE pending
           /\ blocking' = IF r.ret = "result"
                          THEN [blocking EXCEPT ![m] = Cap(@, MaxBlocking)]
                          ELSE blocking
           /\ slast' = [op |-> "call", method |-> m, ctxLoop |-> inLoop,
                        cachedBefore |-> cachedHasLoop[m], body |-> body, ret |-> r.ret]
    /\ UNCHANGED inLoop
    /\ UNCHANGED notSyncVars

\* 'await coro' inside the running loop: the body runs; a blocking
\* asyncio.run() made by the body fails with the runtime's own error
Await(m, body) ==
    /\ inLoop /\ m \in Methods /\ body \in pending[m]
    /\ pending' = [pending EXCEPT ![m] = @ \ {body}]
    /\ slast' = [op |-> "await", method |-> m, ctxLoop |-> TRUE,
                 cachedBefore |-> cachedHasLoop[m], body |-> body,
                 ret |-> IF body = "ok" THEN "result"
                         ELSE IF body = "nested_run" THEN "RuntimeError:generic"
                         ELSE "RuntimeError:other"]
    /\ UNCHANGED <<cachedHasLoop, inLoop, blocking>>
    /\ UNCHANGED notSyncVars

\* decorators.py wrapper._smartsync_reset_cache
ResetCache(m) ==
    /\ m \in Methods
    /\ cachedHasLoop' = [cachedHasLoop EXCEPT ![m] = FALSE]
    /\ slast' = [NoSLast EXCEPT !.op = "reset", !.method = m, !.ctxLoop = inLoop]
    /\ UNCHANGED <<inLoop, pending, blocking>>
    /\ UNCHANGED notSyncVars

\* storage_node.py StorageNode.read / write: asyncio.run(self._async_node.read())
FacadeRun(hasLoop) ==
    IF hasLoop THEN "RuntimeError:generic" ELSE "result"

FacadeCall(m) ==
    /\ m \in Methods
    /\ slast' = [NoSLast EXCEPT !.op = "facade", !.method = m, !.ctxLoop = inLoop,
                                !.body = "ok", !.ret = FacadeRun(inLoop)]
    /\ UNCHANGED <<cachedHasLoop, inLoop, pending, blocking>>
    /\ UNCHANGED notSyncVars

\* the calling thread enters a running event loop (asyncio.run(main()) starts)
EnterLoop ==
    /\ ~inLoop
    /\ inLoop' = TRUE
    /\ slast' = [NoSLast EXCEPT !.op = "enter_loop"]
    /\ UNCHANGED <<cachedHasLoop, pending, blocking>>
    /\ UNCHANGED notSyncVars

\* the event loop of the calling thread ends
ExitLoop ==
    /\ inLoop
    /\ inLoop' = FALSE
    /\ slast' = [NoSLast EXCEPT !.op = "exit_loop"]
    /\ UNCHANGED <<cachedHasLoop, pending, blocking>>
    /\ UNCHANGED notSyncVars

InitSync ==
    /\ cachedHasLoop = [m \in Methods |-> FALSE]
    /\ inLoop = FALSE
    /\ pending = [m \in Methods |-> {}]
    /\ slast = NoSLast
    /\ blocking = [m \in Methods |-> 0]

NextSync ==
    \/ \E m \in Methods, b \in Bodies : Call(m, b)
    \/ \E m \in Methods, b \in Bodies : Await(m, b)
    \/ \E m \in Methods : ResetCache(m)
    \/ \E m \in Methods : FacadeCall(m)
    \/ EnterLoop
    \/ ExitLoop

(***************************************************************************)
(* PART 4 - conditionally cached node properties (node_decorators.py       *)
(* cacheable_property, async_storage_node.py).  One node; its path on the  *)
(* backend is absent, a directory or a file of some size and mtime.        *)
(* Property values are integers: booleans are 0/1.                         *)
(***************************************************************************)
Sizes == {9, 15}    \* sizes of the contents written
Props == {"exists", "is_file", "is_dir", "size", "mtime"}
NoMemo == -1
Absent == [kind |-> "absent", size |-> 0, mtime |-> 0]

B2I(b) == IF b THEN 1 ELSE 0

\* providers/fsspec_provider.py AsyncFsspecImplementor.exists, is_file, is_dir,
\* size, mtime
ImplementorProp(file, prop) ==
    CASE prop = "exists"  -> [err |-> "ok", value |-> B2I(file.kind # "absent")]
      [] prop = "is_file" -> [err |-> "ok", value |-> B2I(file.kind = "file")]
      [] prop = "is_dir"  -> [err |-> "ok", value |-> B2I(file.kind = "dir")]
      [] prop = "size"    -> IF file.kind = "absent"
                             THEN [err |-> "FileNotFoundError", value |-> NoMemo]
                             ELSE IF file.kind # "file"
                             THEN [err |-> "ValueError", value |-> NoMemo]
                             ELSE [err |-> "ok", value |-> file.size]
      [] prop = "mtime"   -> IF file.kind = "absent"
                             THEN [err |-> "FileNotFoundError", value |-> NoMemo]
                             ELSE [err |-> "ok", value |-> file.mtime]

\* node_decorators.py cacheable_property.async_wrapper: the value returned
\* (or the error raised) and the memo afterwards
CacheableProperty(node, mem, file, prop) ==
    IF node.cached /\ mem[prop] # NoMemo
    THEN [err |-> "ok", value |-> mem[prop], memo |-> mem]
    ELSE LET r == ImplementorProp(file, prop)
         IN  IF r.err # "ok" THEN [err |-> r.err, value |-> NoMemo, memo |-> mem]
             ELSE [err |-> "ok", value |-> r.value,
                   memo |-> IF node.cached THEN [mem EXCEPT ![prop] = r.value] ELSE mem]

\* variant: only the 'exists' memo is dropped
InvalidateCacheExistsOnly(node, mem) ==
    IF node.cached THEN [mem EXCEPT !["exists"] = NoMemo] ELSE mem

\* async_storage_node.py AsyncStorageNode.invalidate_cache
InvalidateCache(node, mem) ==
    IF node.cached THEN [p \in Props |-> NoMemo] ELSE mem

NoCNode == [made |-> FALSE, cached |-> FALSE, must_exist |-> FALSE]

NoCLast == [op |-> "none", prop |-> "<none>", outcome |-> "none", value |-> NoMemo,
            freshBefore |-> "<none>"]

\* async_storage_node.py AsyncStorageNode.__init__ (a new node has no
\* memoized value); w is the property whose history is recorded
NewNode(cached, mustExist, w) ==
    /\ w \in Props
    /\ cnode' = [made |-> TRUE, cached |-> cached, must_exist |-> mustExist]
    /\ memo' = [p \in Props |-> NoMemo]
    /\ clast' = [NoCLast EXCEPT !.op = "new"]
    /\ watch' = w
    /\ firstSeen' = NoMemo
    /\ fresh' = "new"
    /\ UNCHANGED cfile
    /\ UNCHANGED notCacheVars

\* 'await node.<prop>'
Query(prop) ==
    /\ cnode.made
    /\ prop \in Props
    /\ LET r == CacheableProperty(cnode, memo, cfile, prop)
       IN  /\ memo' = r.memo
           /\ clast' = [op |-> "query", prop |-> prop, outcome |-> r.err, value |-> r.value,
                        freshBefore |-> IF prop = watch THEN fresh ELSE "<none>"]
           /\ firstSeen' = IF prop = watch /\ r.err = "ok" /\ firstSeen = NoMemo
                           THEN r.value ELSE firstSeen
           /\ fresh' = IF prop = watch THEN "queried" ELSE fresh
    /\ UNCHANGED <<cnode, cfile, watch>>
    /\ UNCHANGED notCacheVars

\* the backend stamps a write with the next modification time
Stamp(file) == file.mtime + 1

\* node_decorators.py resolved.async_wrapper, step 1: the existence check of
\* a node with must_exist set goes through the cacheable 'exists' property
MustExistCheck(node, mem, file, required) ==
    IF required
    THEN LET r == CacheableProperty(node, mem, file, "exists")
         IN  [err |-> IF r.value = 1 THEN "ok" ELSE "FileNotFoundError", memo |-> r.memo,
              value |-> r.value]
    ELSE [err |-> "ok", memo |-> mem, value |-> NoMemo]

\* the existence check is a query of 'exists': its effect on the history
CheckedFirstSeen(required, value) ==
    IF required /\ watch = "exists" /\ firstSeen = NoMemo THEN value ELSE firstSeen

CheckedFresh(required) ==
    IF required /\ watch = "exists" THEN "queried" ELSE fresh

\* async_storage_node.py AsyncStorageNode.write
NodeWrite(size) ==
    /\ cnode.made
    /\ size \in Sizes
    /\ cfile.mtime < MaxClock
    /\ LET chk == MustExistCheck(cnode, memo, cfile, cnode.must_exist)
       IN  IF chk.err # "ok"
           THEN /\ memo' = chk.memo
                /\ clast' = [NoCLast EXCEPT !.op = "write", !.outcome = chk.err]
                /\ UNCHANGED cfile
           ELSE IF cfile.kind = "dir"
           THEN /\ memo' = chk.memo
                /\ clast' = [NoCLast EXCEPT !.op = "write", !.outcome = "IsADirectoryError"]
                /\ UNCHANGED cfile
           ELSE /\ cfile' = [kind |-> "file", size |-> size, mtime |-> Stamp(cfile)]
                /\ memo' = InvalidateCache(cnode, chk.memo)
                /\ clast' = [NoCLast EXCEPT !.op = "write", !.outcome = "ok"]
    /\ firstSeen' = CheckedFirstSeen(cnode.must_exist,
                                     CacheableProperty(cnode, memo, cfile, "exists").value)
    /\ fresh' = CheckedFresh(cnode.must_exist)
    /\ UNCHANGED <<cnode, watch>>
    /\ UNCHANGED notCacheVars

\* async_storage_node.py AsyncStorageNode.read
NodeRead ==
    /\ cnode.made
    /\ LET chk == MustExistCheck(cnode, memo, cfile, TRUE)
       IN  /\ memo' = chk.memo
           /\ clast' = [NoCLast EXCEPT !.op = "read",
                          !.outcome = IF chk.err # "ok" THEN chk.err
                                      ELSE IF cfile.kind = "file" THEN "ok"
                                      ELSE IF cfile.kind = "dir" THEN "IsADirectoryError"
                                      ELSE "FileNotFoundError",
                          !.value = IF chk.err = "ok" /\ cfile.kind = "file"
                                    THEN cfile.size ELSE NoMemo]
           /\ firstSeen' = CheckedFirstSeen(TRUE, chk.value)
           /\ fresh' = CheckedFresh(TRUE)
    /\ UNCHANGED <<cnode, cfile, watch>>
    /\ UNCHANGED notCacheVars

\* async_storage_node.py AsyncStorageNode.delete over
\* providers/fsspec_provider.py AsyncFsspecImplementor.delete; removing a
\* missing path succeeds or raises, as the file system library decides
NodeDelete(recursive, missingRaises) ==
    /\ cnode.made
    /\ LET chk == MustExistCheck(cnode, memo, cfile, cnode.must_exist)
           err == IF chk.err # "ok" THEN chk.err
                  ELSE IF cfile.kind = "dir" /\ ~recursive THEN "ValueError"
                  ELSE IF cfile.kind = "absent" /\ missingRaises THEN "FileNotFoundError"
                  ELSE "ok"
       IN  /\ clast' = [NoCLast EXCEPT !.op = "delete", !.outcome = err]
           /\ cfile' = IF err = "ok" THEN Absent ELSE cfile
           /\ memo' = IF err = "ok" THEN InvalidateCache(cnode, chk.memo) ELSE chk.memo
           /\ firstSeen' = CheckedFirstSeen(cnode.must_exist, chk.value)
           /\ fresh' = CheckedFresh(cnode.must_exist)
    /\ UNCHANGED <<cnode, watch>>
    /\ UNCHANGED notCacheVars

\* async_storage_node.py AsyncStorageNode.mkdir (parents=True, exist_ok=True)
NodeMkdir ==
    /\ cnode.made
    /\ LET err == IF cfile.kind = "file" THEN "FileExistsError" ELSE "ok"
       IN  /\ clast' = [NoCLast EXCEPT !.op = "mkdir", !.outcome = err]
           /\ cfile' = IF cfile.kind = "absent"
                       THEN [kind |-> "dir", size |-> 0, mtime |-> Stamp(cfile)]
                       ELSE cfile
           /\ memo' = IF err = "ok" THEN InvalidateCache(cnode, memo) ELSE memo
    /\ UNCHANGED <<cnode, watch, firstSeen, fresh>>
    /\ UNCHANGED notCacheVars

\* async_storage_node.py AsyncStorageNode.invalidate_cache, called by the user
Invalidate ==
    /\ cnode.made
    /\ memo' = InvalidateCache(cnode, memo)
    /\ clast' = [NoCLast EXCEPT !.op = "invalidate", !.prop = watch, !.value = memo[watch]]
    /\ firstSeen' = NoMemo
    /\ fresh' = "invalidated"
    /\ UNCHANGED <<cnode, cfile, watch>>
    /\ UNCHANGED notCacheVars

\* async_storage_node.py AsyncStorageNode.refresh
Refresh ==
    /\ cnode.made
    /\ memo' = InvalidateCache(cnode, memo)
    /\ clast' = [NoCLast EXCEPT !.op = "refresh", !.prop = watch, !.value = memo[watch]]
    /\ firstSeen' = NoMemo
    /\ fresh' = "invalidated"
    /\ UNCHANGED <<cnode, cfile, watch>>
    /\ UNCHANGED notCacheVars

\* the file is written or removed through another node or process
ExternalChange(newFile) ==
    /\ cfile.mtime < MaxClock
    /\ newFile \in {Absent} \cup
                   {[kind |-> "file", size |-> n, mtime |-> Stamp(cfile)] : n \in Sizes}
    /\ newFile # cfile
    /\ cfile' = newFile
    /\ clast' = [NoCLast EXCEPT !.op = "external"]
    /\ UNCHANGED <<cnode, memo, watch, firstSeen, fresh>>
    /\ UNCHANGED notCacheVars

CFiles == {Absent} \cup [kind : {"file"}, size : Sizes, mtime : 0..MaxClock]
                   \cup [kind : {"dir"}, size : {0}, mtime : 0..MaxClock]

InitCache ==
    /\ cnode = NoCNode
    /\ memo = [p \in Props |-> NoMemo]
    /\ cfile = Absent
    /\ clast = NoCLast
    /\ watch = "exists"
    /\ firstSeen = NoMemo
    /\ fresh = "new"

NextCache ==
    \/ \E c \in BOOLEAN, me \in BOOLEAN, w \in Props : NewNode(c, me, w)
    \/ \E p \in Props : Query(p)
    \/ \E n \in Sizes : NodeWrite(n)
    \/ NodeRead
    \/ \E rec \in BOOLEAN, mr \in BOOLEAN : NodeDelete(rec, mr)
    \/ NodeMkdir
    \/ Invalidate
    \/ Refresh
    \/ \E nf \in CFiles : ExternalChange(nf)

(***************************************************************************)
(* PART 5 - copy of a single file with a skip strategy (node.py            *)
(* _should_skip_file, _copy_file_with_skip, copy).  The source is absent   *)
(* or a file; the destination is absent, a file or a directory (a file     *)
(* copied onto a directory lands inside it).  A reason is the sequence of  *)
(* its words.                                                              *)
(***************************************************************************)
Contents == {"x", "y", "zz"}
SkipStrategies == {"never", "exists", "size", "hash", "custom"}
SkipFns == {"none", "true", "false", "raises"}
NoChild == "<none>"
NoDest == [kind |-> "absent", data |-> "", child |-> NoChild]
Dests == {NoDest} \cup [kind : {"file"}, data : Contents, child : {NoChild}]
                  \cup [kind : {"dir"}, data : {""}, child : Contents \cup {NoChild}]

ContentSize(c) == IF c = "zz" THEN 2 ELSE 1
Md5(c) == CASE c = "x" -> "9dd4" [] c = "y" -> "4152" [] OTHER -> "fe2d"
Contains(reason, word) == \E i \in DOMAIN reason : reason[i] = word

\* node.py StorageNode.size over backends/local.py LocalStorage.size
NodeSize(file, fails) ==
    IF fails THEN [err |-> "OSError", value |-> 0]
    ELSE IF file.kind = "absent" THEN [err |-> "FileNotFoundError", value |-> 0]
    ELSE IF file.kind = "dir" THEN [err |-> "ValueError", value |-> 0]
    ELSE [err |-> "ok", value |-> ContentSize(file.data)]

\* node.py StorageNode.md5hash
NodeMd5hash(file, fails) ==
    IF file.kind = "absent" THEN [err |-> "FileNotFoundError", value |-> ""]
    ELSE IF file.kind = "dir" THEN [err |-> "ValueError", value |-> ""]
    ELSE IF fails THEN [err |-> "OSError", value |-> ""]
    ELSE [err |-> "ok", value |-> Md5(file.data)]

SrcAsFile(src) == IF src = "absent" THEN NoDest
                  ELSE [kind |-> "file", data |-> src, child |-> NoChild]

\* variant: strategy 'exists' is not honoured
ShouldSkipFileNever(src, dest, skip, skipFn, fails) ==
    [skip |-> FALSE, reason |-> <<>>, raised |-> FALSE]

\* node.py StorageNode._should_skip_file; 'raised' records that the
\* comparison raised
ShouldSkipFile(src, dest, skip, skipFn, fails) ==
    IF dest.kind = "absent" THEN [skip |-> FALSE, reason |-> <<>>, raised |-> FALSE]
    ELSE IF skip = "never" THEN [skip |-> FALSE, reason |-> <<>>, raised |-> FALSE]
    ELSE IF skip = "exists"
    THEN [skip |-> TRUE, reason |-> <<"destination", "exists">>, raised |-> FALSE]
    ELSE IF skip = "size"
    THEN LET a == NodeSize(SrcAsFile(src), FALSE)
             b == NodeSize(dest, fails)
         IN  IF a.err # "ok" \/ b.err # "ok"
             THEN [skip |-> FALSE, reason |-> <<>>, raised |-> TRUE]
             ELSE IF a.value = b.value
             THEN [skip |-> TRUE, reason |-> <<"same", "size">>, raised |-> FALSE]
             ELSE [skip |-> FALSE, reason |-> <<>>, raised |-> FALSE]
    ELSE IF skip = "hash"
    THEN LET a == NodeMd5hash(SrcAsFile(src), FALSE)
             b == NodeMd5hash(dest, fails)
         IN  IF a.err # "ok" \/ b.err # "ok"
             THEN [skip |-> FALSE, reason |-> <<>>, raised |-> TRUE]
             ELSE IF a.value = b.value
             THEN [skip |-> TRUE, reason |-> <<"same", "content">>, raised |-> FALSE]
             ELSE [skip |-> FALSE, reason |-> <<>>, raised |-> FALSE]
    ELSE IF skip = "custom"
    THEN IF skipFn = "raises" THEN [skip |-> FALSE, reason |-> <<>>, raised |-> TRUE]
         ELSE IF skipFn = "true"
         THEN [skip |-> TRUE, reason |-> <<"custom", "function", "returned", "True">>,
               raised |-> FALSE]
         ELSE [skip |-> FALSE, reason |-> <<>>, raised |-> FALSE]
    ELSE [skip |-> FALSE, reason |-> <<>>, raised |-> FALSE]

\* backends/local.py LocalStorage.copy of a file (shutil.copy2)
BackendCopy(src, dest) ==
    IF dest.kind = "dir" THEN [dest EXCEPT !.child = src]
    ELSE [kind |-> "file", data |-> src, child |-> NoChild]

\* variant: a comparison that raised makes the file be skipped
CopyFileWithSkipOnError(src, dest, skip, skipFn, fails, onFile, onSkip) ==
    LET r == ShouldSkipFile(src, dest, skip, skipFn, fails)
    IN  IF r.skip \/ r.raised
        THEN [dest |-> dest, onSkip |-> IF onSkip THEN <<r.reason>> ELSE <<>>,
              onFile |-> 0, copied |-> FALSE, raised |-> r.raised]
        ELSE [dest |-> BackendCopy(src, dest), onSkip |-> <<>>,
              onFile |-> IF onFile THEN 1 ELSE 0, copied |-> TRUE, raised |-> r.raised]

\* node.py StorageNode._copy_file_with_skip: the destination afterwards and
\* the callbacks fired
CopyFileWithSkip(src, dest, skip, skipFn, fails, onFile, onSkip) ==
    LET r == ShouldSkipFile(src, dest, skip, skipFn, fails)
    IN  IF r.skip
        THEN [dest |-> dest, onSkip |-> IF onSkip THEN <<r.reason>> ELSE <<>>,
              onFile |-> 0, copied |-> FALSE, raised |-> r.raised]
        ELSE [dest |-> BackendCopy(src, dest), onSkip |-> <<>>,
              onFile |-> IF onFile THEN 1 ELSE 0, copied |-> TRUE, raised |-> r.raised]

NoKLast == [op |-> "none", skip |-> "<none>", skipFn |-> "<none>", outcome |-> "none",
            destBefore |-> NoDest, onFileGiven |-> FALSE, onSkipGiven |-> FALSE,
            onSkip |-> <<>>, onFile |-> 0, copied |-> FALSE, raised |-> FALSE]

\* node.py StorageNode.copy
Copy(skip, skipFn, fails, onFile, onSkip) ==
    /\ skip \in SkipStrategies
    /\ skipFn \in SkipFns
    /\ LET base == [NoKLast EXCEPT !.op = "copy", !.skip = skip, !.skipFn = skipFn,
                      !.destBefore = dstFile, !.onFileGiven = onFile,
                      !.onSkipGiven = onSkip]
       IN  IF srcFile = "absent"
           THEN /\ klast' = [base EXCEPT !.outcome = "FileNotFoundError"]
                /\ UNCHANGED dstFile
           ELSE IF skip = "custom" /\ skipFn = "none"
           THEN /\ klast' = [base EXCEPT !.outcome = "ValueError"]
                /\ UNCHANGED dstFile
           ELSE IF skip # "never" \/ onFile \/ onSkip
           THEN LET r == CopyFileWithSkip(srcFile, dstFile, skip, skipFn, fails,
                                          onFile, onSkip)
                IN  /\ dstFile' = r.dest
                    /\ klast' = [base EXCEPT !.outcome = "ok", !.onSkip = r.onSkip,
                                   !.onFile = r.onFile, !.copied = r.copied,
                                   !.raised = r.raised]
           ELSE /\ dstFile' = BackendCopy(srcFile, dstFile)
                /\ klast' = [base EXCEPT !.outcome = "ok", !.copied = TRUE]
    /\ UNCHANGED srcFile
    /\ UNCHANGED notCopyVars

\* the source file is written or removed
SetSource(c) ==
    /\ c \in Contents \cup {"absent"}
    /\ c # srcFile
    /\ srcFile' = c
    /\ klast' = [NoKLast EXCEPT !.op = "set_source"]
    /\ UNCHANGED dstFile
    /\ UNCHANGED notCopyVars

\* the destination is written, removed or made a directory
SetDest(d) ==
    /\ d \in Dests
    /\ d # dstFile
    /\ dstFile' = d
    /\ klast' = [NoKLast EXCEPT !.op = "set_dest"]
    /\ UNCHANGED srcFile
    /\ UNCHANGED notCopyVars

InitCopy ==
    /\ srcFile = "absent"
    /\ dstFile = NoDest
    /\ klast = NoKLast

NextCopy ==
    \/ \E sk \in SkipStrategies, fn \in SkipFns, fl \in BOOLEAN, onF \in BOOLEAN,
          onS \in BOOLEAN : Copy(sk, fn, fl, onF, onS)
    \/ \E c \in Contents \cup {"absent"} : SetSource(c)
    \/ \E d \in Dests : SetDest(d)

(***************************************************************************)
(* PART 6 - copy of a directory with include / exclude / filter and a skip *)
(* strategy (node.py copy, _copy_dir_with_skip).  The source directory     *)
(* holds some of three files, each of content SrcContent; a file name is   *)
(* the list of its pieces, a glob pattern a list of pieces and "*".        *)
(***************************************************************************)
MainPy == <<"main", ".py">>
TestMainPy == <<"test_", "main", ".py">>
ReadmeTxt == <<"readme", ".txt">>
FileNames == {MainPy, TestMainPy, ReadmeTxt}
FileOrder == <<MainPy, ReadmeTxt, TestMainPy>>   \* the order children() lists them
SrcContent == "x"
DestContents == {"x", "y"}
IncludeSets == {{}, {<<"*", ".py">>}}
ExcludeSets == {{}, {<<"test_", "*">>}}
FilterFns == {"none", "reject_main", "raise_readme"}
TreeSkips == {"never", "exists"}
CallbackChoices == {<<FALSE, FALSE>>, <<FALSE, TRUE>>, <<TRUE, TRUE>>}   \* <<on_file, on_skip>>

\* fnmatch.fnmatch(basename, pattern) for patterns made of literals and "*"
RECURSIVE GlobMatch(_, _)
GlobMatch(pat, name) ==
    IF pat = <<>> THEN name = <<>>
    ELSE IF Head(pat) = "*"
    THEN GlobMatch(Tail(pat), name) \/ (name # <<>> /\ GlobMatch(pat, Tail(name)))
    ELSE name # <<>> /\ Head(name) = Head(pat) /\ GlobMatch(Tail(pat), Tail(name))

\* what the caller's filter predicate does for a file
FilterFn(fn, name) ==
    CASE fn = "reject_main"  -> IF name = MainPy THEN "false" ELSE "true"
      [] fn = "raise_readme" -> IF name = ReadmeTxt THEN "raises" ELSE "true"
      [] OTHER               -> "true"

\* The filter stages of a directory copy for one file: include, then
\* exclude, then the filter predicate; 'ran' lists the stages evaluated.
FilterDecision(name, inc, exc, fn) ==
    LET ranInc == IF inc # {} THEN {"include"} ELSE {}
        ranExc == ranInc \cup (IF exc # {} THEN {"exclude"} ELSE {})
        ranFlt == ranExc \cup (IF fn # "none" THEN {"filter"} ELSE {})
    IN  IF inc # {} /\ ~\E p \in inc : GlobMatch(p, name)
        THEN [rejected |-> TRUE, reason |-> <<"not", "included">>, ran |-> ranInc,
              raised |-> FALSE]
        ELSE IF exc # {} /\ \E p \in exc : GlobMatch(p, name)
        THEN [rejected |-> TRUE, reason |-> <<"excluded">>, ran |-> ranExc,
              raised |-> FALSE]
        ELSE IF fn # "none" /\ FilterFn(fn, name) # "true"
        THEN [rejected |-> TRUE, reason |-> <<"filtered", "out">>, ran |-> ranFlt,
              raised |-> (FilterFn(fn, name) = "raises")]
        ELSE [rejected |-> FALSE, reason |-> <<>>, ran |-> ranFlt, raised |-> FALSE]

DestAsFile(v) == IF v = "absent" THEN NoDest
                 ELSE [kind |-> "file", data |-> v, child |-> NoChild]

\* a per-file step that consults the skip strategy before the filters
DirCopyFileSkipFirst(name, destv, inc, exc, fn, skip, onFile, onSkip) ==
    LET d == FilterDecision(name, inc, exc, fn)
        r == ShouldSkipFile(SrcContent, DestAsFile(destv), skip, "none", FALSE)
    IN  IF r.skip
        THEN [dest |-> destv,
              entry |-> [name |-> name, outcome |-> "skipped", reason |-> r.reason,
                         ran |-> {"skip"}, raised |-> FALSE,
                         onSkip |-> onSkip, onFile |-> FALSE]]
        ELSE IF d.rejected
        THEN [dest |-> destv,
              entry |-> [name |-> name, outcome |-> "skipped", reason |-> d.reason,
                         ran |-> d.ran \cup {"skip"}, raised |-> d.raised,
                         onSkip |-> onSkip, onFile |-> FALSE]]
        ELSE [dest |-> SrcContent,
              entry |-> [name |-> name, outcome |-> "copied", reason |-> <<>>,
                         ran |-> d.ran \cup {"skip"}, raised |-> FALSE,
                         onSkip |-> FALSE, onFile |-> onFile]]

\* node.py _copy_dir_with_skip, the body of the loop over the collected
\* files: the decision for one file, the destination content afterwards
\* and the callbacks fired
DirCopyFile(name, destv, inc, exc, fn, skip, onFile, onSkip) ==
    LET d == FilterDecision(name, inc, exc, fn)
        r == ShouldSkipFile(SrcContent, DestAsFile(destv), skip, "none", FALSE)
    IN  IF d.rejected
        THEN [dest |-> destv,
              entry |-> [name |-> name, outcome |-> "skipped", reason |-> d.reason,
                         ran |-> d.ran, raised |-> d.raised,
                         onSkip |-> onSkip, onFile |-> FALSE]]
        ELSE IF r.skip
        THEN [dest |-> destv,
              entry |-> [name |-> name, outcome |-> "skipped", reason |-> r.reason,
                         ran |-> d.ran \cup {"skip"}, raised |-> FALSE,
                         onSkip |-> onSkip, onFile |-> FALSE]]
        ELSE [dest |-> SrcContent,
              entry |-> [name |-> name, outcome |-> "copied", reason |-> <<>>,
                         ran |-> d.ran \cup {"skip"}, raised |-> FALSE,
                         onSkip |-> FALSE, onFile |-> onFile]]

\* node.py _copy_dir_with_skip, collect_files: the files of the source in
\* listing order
CollectFiles(src) == SelectSeq(FileOrder, LAMBDA n : n \in src)

\* a loop that lets the exception of a filter predicate end the copy
RECURSIVE CopyDirWithSkipPropagates(_, _, _, _, _, _, _, _)
CopyDirWithSkipPropagates(files, dst, inc, exc, fn, skip, onFile, onSkip) ==
    IF files = <<>> THEN [dst |-> dst, log |-> <<>>]
    ELSE LET name == Head(files)
             one == DirCopyFile(name, dst[name], inc, exc, fn, skip, onFile, onSkip)
             rest == CopyDirWithSkipPropagates(Tail(files),
                                     [dst EXCEPT ![name] = one.dest],
                                     inc, exc, fn, skip, onFile, onSkip)
         IN  IF one.entry.raised THEN [dst |-> dst, log |-> <<>>]
             ELSE [dst |-> rest.dst, log |-> <<one.entry>> \o rest.log]

\* node.py _copy_dir_with_skip, the loop over the collected files
RECURSIVE CopyDirWithSkip(_, _, _, _, _, _, _, _)
CopyDirWithSkip(files, dst, inc, exc, fn, skip, onFile, onSkip) ==
    IF files = <<>> THEN [dst |-> dst, log |-> <<>>]
    ELSE LET name == Head(files)
             one == DirCopyFile(name, dst[name], inc, exc, fn, skip, onFile, onSkip)
             rest == CopyDirWithSkip(Tail(files), [dst EXCEPT ![name] = one.dest],
                                     inc, exc, fn, skip, onFile, onSkip)
         IN  [dst |-> rest.dst, log |-> <<one.entry>> \o rest.log]

\* backends/local.py LocalStorage.copy of a directory: every file is copied
BackendCopyDir(src, dst) ==
    [n \in FileNames |-> IF n \in src THEN SrcContent ELSE dst[n]]

NoTLast == [op |-> "none", inc |-> {}, exc |-> {}, fn |-> "none", skip |-> "<none>",
            onFile |-> FALSE, onSkip |-> FALSE, log |-> <<>>, before |-> [n \in FileNames |-> "absent"]]

\* node.py StorageNode.copy with a directory as source
DirCopy(inc, exc, fn, skip, onFile, onSkip) ==
    /\ inc \in IncludeSets /\ exc \in ExcludeSets /\ fn \in FilterFns
    /\ skip \in TreeSkips
    /\ LET base == [NoTLast EXCEPT !.inc = inc, !.exc = exc, !.fn = fn, !.skip = skip,
                      !.onFile = onFile, !.onSkip = onSkip, !.before = tdst]
       IN  IF skip # "never" \/ onFile \/ onSkip \/ inc # {} \/ exc # {} \/ fn # "none"
           THEN LET r == CopyDirWithSkip(CollectFiles(tsrc), tdst, inc, exc, fn, skip,
                                         onFile, onSkip)
                IN  /\ tdst' = r.dst
                    /\ tlast' = [base EXCEPT !.op = "copy", !.log = r.log]
           ELSE /\ tdst' = BackendCopyDir(tsrc, tdst)
                /\ tlast' = [base EXCEPT !.op = "plain_copy"]
    /\ UNCHANGED tsrc
    /\ UNCHANGED notTreeVars

\* a file of the source directory is written or removed
SourceSet(name, present) ==
    /\ name \in FileNames
    /\ (name \in tsrc) # present
    /\ tsrc' = IF present THEN tsrc \cup {name} ELSE tsrc \ {name}
    /\ tlast' = [NoTLast EXCEPT !.op = "source_set"]
    /\ UNCHANGED tdst
    /\ UNCHANGED notTreeVars

\* a file of the destination directory is written or removed
DestSet(name, v) ==
    /\ name \in FileNames /\ v \in DestContents \cup {"absent"}
    /\ tdst[name] # v
    /\ tdst' = [tdst EXCEPT ![name] = v]
    /\ tlast' = [NoTLast EXCEPT !.op = "dest_set"]
    /\ UNCHANGED tsrc
    /\ UNCHANGED notTreeVars

InitTree ==
    /\ tsrc = {}
    /\ tdst = [n \in FileNames |-> "absent"]
    /\ tlast = NoTLast

NextTree ==
    \/ \E inc \in IncludeSets, exc \in ExcludeSets, fn \in FilterFns, sk \in TreeSkips,
          cb \in CallbackChoices : DirCopy(inc, exc, fn, sk, cb[1], cb[2])
    \/ \E n \in FileNames, pr \in BOOLEAN : SourceSet(n, pr)
    \/ \E n \in FileNames, v \in DestContents \cup {"absent"} : DestSet(n, v)

(***************************************************************************)
(* PART 7 - version history of one file on an S3 mount with versioning     *)
(* enabled (backends/fsspec.py get_versions, open_version; node.py         *)
(* versions, open_version), snapshot nodes, compact and write_if_changed.  *)
(* Every write of the live file appends a version; the n-th write gets id  *)
(* n and timestamp n.                                                      *)
(***************************************************************************)
VData == {"x", "y"}
VProtocol == "s3"
OpenModes == {"rb", "wb", "ab", "r+"}
SnapshotSelectors == {"index", "id", "timestamp"}
\* <<selector, argument>> of the snapshot nodes made
Selections == {<<"index", -1>>, <<"index", -2>>, <<"id", 1>>, <<"id", 2>>,
               <<"timestamp", 1>>, <<"timestamp", 2>>}
HandleData == "y"    \* what is written into a handle that accepts data

\* the characters of an open mode
ModeChars(mode) ==
    CASE mode = "rb" -> {"r", "b"}
      [] mode = "wb" -> {"w", "b"}
      [] mode = "ab" -> {"a", "b"}
      [] OTHER       -> {"r", "+"}

Fingerprint(data) == Md5(data)
Fingerprints(h) == [i \in 1..Len(h) |-> Fingerprint(h[i].data)]
VersionIds(h) == {h[i].version_id : i \in 1..Len(h)}
VersionById(h, id) == h[CHOOSE i \in 1..Len(h) : h[i].version_id = id]
Reverse(q) == [i \in 1..Len(q) |-> q[Len(q) + 1 - i]]

\* a PUT on a bucket without versioning: the current version is replaced
PutVersionOverwrite(h, n, data) ==
    (IF h = <<>> THEN <<>> ELSE SubSeq(h, 1, Len(h) - 1))
        \o <<[version_id |-> n, last_modified |-> n, data |-> data]>>

\* S3 PUT on a bucket with versioning enabled, through
\* backends/fsspec.py write_bytes: the object gets a new current version
PutVersion(h, n, data) ==
    Append(h, [version_id |-> n, last_modified |-> n, data |-> data])

\* backends/fsspec.py get_versions: the records the service lists (newest
\* first), normalised; nothing for another protocol
GetVersions(protocol, h) ==
    IF protocol = "s3"
    THEN Reverse([i \in 1..Len(h) |->
                    [version_id |-> h[i].version_id, is_latest |-> (i = Len(h)),
                     last_modified |-> h[i].last_modified,
                     size |-> ContentSize(h[i].data)]])
    ELSE <<>>

\* an open_version that refuses only the 'w' modes
OpenVersionTruncateOnly(protocol, h, id, mode) ==
    IF "w" \in ModeChars(mode)
    THEN [raised |-> "ValueError", content |-> "", writes |-> FALSE]
    ELSE IF protocol = "s3"
    THEN IF id \in VersionIds(h)
         THEN [raised |-> "ok", content |-> VersionById(h, id).data,
               writes |-> ModeChars(mode) \cap {"a", "+"} # {}]
         ELSE [raised |-> "FileNotFoundError", content |-> "", writes |-> FALSE]
    ELSE [raised |-> "PermissionError", content |-> "", writes |-> FALSE]

\* backends/fsspec.py open_version; 'writes' tells whether the handle
\* returned accepts data
OpenVersion(protocol, h, id, mode) ==
    IF "w" \in ModeChars(mode) \/ "a" \in ModeChars(mode) \/ "+" \in ModeChars(mode)
    THEN [raised |-> "ValueError", content |-> "", writes |-> FALSE]
    ELSE IF protocol = "s3"
    THEN IF id \in VersionIds(h)
         THEN [raised |-> "ok", content |-> VersionById(h, id).data, writes |-> FALSE]
         ELSE [raised |-> "FileNotFoundError", content |-> "", writes |-> FALSE]
    ELSE [raised |-> "PermissionError", content |-> "", writes |-> FALSE]

\* the versions oldest first that are consecutive duplicates, any repeat
\* of an earlier fingerprint counted
DuplicatesOfAnyEarlier(h) ==
    {i \in 2..Len(h) : \E j \in 1..(i - 1) :
                            Fingerprint(h[i].data) = Fingerprint(h[j].data)}

\* every member of a run of equal fingerprints counted
DuplicatesWholeRun(h) ==
    {i \in 1..Len(h) :
        \/ i > 1 /\ Fingerprint(h[i].data) = Fingerprint(h[i - 1].data)
        \/ i < Len(h) /\ Fingerprint(h[i].data) = Fingerprint(h[i + 1].data)}

\* compact: the positions, walking oldest to newest, whose fingerprint
\* equals that of the immediate predecessor
Duplicates(h) ==
    {i \in 2..Len(h) : Fingerprint(h[i].data) = Fingerprint(h[i - 1].data)}

\* the history without the versions at the given positions
RECURSIVE WithoutPositions(_, _, _)
WithoutPositions(h, drop, i) ==
    IF i > Len(h) THEN <<>>
    ELSE (IF i \in drop THEN <<>> ELSE <<h[i]>>) \o WithoutPositions(h, drop, i + 1)

\* a compact that deletes in a dry run too
CompactVersionsAlwaysDeletes(h, dryRun) ==
    [removed |-> Cardinality(Duplicates(h)),
     hist |-> WithoutPositions(h, Duplicates(h), 1)]

\* compact(node, dry_run)
CompactVersions(h, dryRun) ==
    [removed |-> Cardinality(Duplicates(h)),
     hist |-> IF dryRun THEN h ELSE WithoutPositions(h, Duplicates(h), 1)]

\* a write_if_changed that compares nothing
WriteIfChangedAlways(h, n, data) ==
    [changed |-> TRUE, hist |-> PutVersion(h, n, data)]

\* write_if_changed(node, data)
WriteIfChanged(h, n, data) ==
    IF h # <<>> /\ Fingerprint(h[Len(h)].data) = Fingerprint(data)
    THEN [changed |-> FALSE, hist |-> h]
    ELSE [changed |-> TRUE, hist |-> PutVersion(h, n, data)]

NoSnap == [bound |-> FALSE, by |-> "none", version_id |-> 0]

\* the version a selector designates, 0 if none: an index counts from the
\* newest (-1 is the current version), a timestamp designates the newest
\* version not younger than it
SelectVersion(h, by, arg) ==
    CASE by = "index" ->
            IF arg < 0 /\ Len(h) + arg + 1 >= 1 THEN h[Len(h) + arg + 1].version_id ELSE 0
      [] by = "id" -> IF arg \in VersionIds(h) THEN arg ELSE 0
      [] OTHER ->
            LET older == {i \in 1..Len(h) : h[i].last_modified <= arg}
            IN  IF older = {} THEN 0
                ELSE h[CHOOSE i \in older : \A j \in older : j <= i].version_id

\* a write through a node bound to a snapshot
SnapshotWriteBytes(h, n, s, data) ==
    [raised |-> "ValueError", hist |-> h]

NoVLast == [op |-> "none", data |-> "", mode |-> "", dryRun |-> FALSE,
            raised |-> "ok", changed |-> FALSE, removed |-> 0, content |-> "",
            repeat |-> FALSE, listing |-> <<>>, before |-> <<>>]

VStart(op) == [NoVLast EXCEPT !.op = op, !.before = hist]

\* node.py write_bytes of the live node
VWrite(data) ==
    /\ data \in VData /\ vnext <= MaxWrites
    /\ hist' = PutVersion(hist, vnext, data)
    /\ vnext' = vnext + 1
    /\ vlast' = [VStart("write") EXCEPT !.data = data]
    /\ UNCHANGED snap
    /\ UNCHANGED notVerVars

\* write_if_changed on the live node
VWriteIfChanged(data) ==
    /\ data \in VData /\ vnext <= MaxWrites
    /\ LET r == WriteIfChanged(hist, vnext, data)
       IN  /\ hist' = r.hist
           /\ vnext' = IF r.changed THEN vnext + 1 ELSE vnext
           /\ vlast' = [VStart("write_if_changed") EXCEPT !.data = data,
                            !.changed = r.changed,
                            \* the call before was the same call and it wrote
                            !.repeat = (vlast.op = "write_if_changed"
                                        /\ vlast.data = data /\ vlast.changed)]
    /\ UNCHANGED snap
    /\ UNCHANGED notVerVars

\* compact on the live node
VCompact(dryRun) ==
    /\ LET r == CompactVersions(hist, dryRun)
       IN  /\ hist' = r.hist
           /\ vlast' = [VStart("compact") EXCEPT !.dryRun = dryRun,
                                               !.removed = r.removed]
    /\ UNCHANGED <<vnext, snap>>
    /\ UNCHANGED notVerVars

\* node.py versions
VListVersions ==
    /\ vlast' = [VStart("versions") EXCEPT !.listing = GetVersions(VProtocol, hist)]
    /\ UNCHANGED <<hist, vnext, snap>>
    /\ UNCHANGED notVerVars

\* manager.py node(..., version=...): a node bound to one version
VSelectSnapshot(by, arg) ==
    /\ by \in SnapshotSelectors
    /\ LET id == SelectVersion(hist, by, arg)
       IN  /\ snap' = IF id = 0 THEN snap
                      ELSE [bound |-> TRUE, by |-> by, version_id |-> id]
           /\ vlast' = [VStart("select") EXCEPT
                           !.raised = IF id = 0 THEN "FileNotFoundError" ELSE "ok"]
    /\ UNCHANGED <<hist, vnext>>
    /\ UNCHANGED notVerVars

\* a write through the snapshot node
VSnapshotWrite(data) ==
    /\ data \in VData /\ snap.bound /\ vnext <= MaxWrites
    /\ LET r == SnapshotWriteBytes(hist, vnext, snap, data)
       IN  /\ hist' = r.hist
           /\ vnext' = IF r.hist = hist THEN vnext ELSE vnext + 1
           /\ vlast' = [VStart("snapshot_write") EXCEPT !.data = data,
                                                      !.raised = r.raised]
    /\ UNCHANGED snap
    /\ UNCHANGED notVerVars

\* node.py open_version of the live node, followed by a write into the
\* handle when it accepts data
VOpenVersion(id, mode) ==
    /\ mode \in OpenModes /\ vnext <= MaxWrites
    /\ LET r == OpenVersion(VProtocol, hist, id, mode)
       IN  /\ hist' = IF r.writes THEN PutVersion(hist, vnext, HandleData) ELSE hist
           /\ vnext' = IF r.writes THEN vnext + 1 ELSE vnext
           /\ vlast' = [VStart("open_version") EXCEPT !.mode = mode,
                            !.raised = r.raised, !.content = r.content]
    /\ UNCHANGED snap
    /\ UNCHANGED notVerVars

\* restore: the content read from the snapshot node is written through the
\* live node
VRestore ==
    /\ snap.bound /\ snap.version_id \in VersionIds(hist) /\ vnext <= MaxWrites
    /\ LET r == OpenVersion(VProtocol, hist, snap.version_id, "rb")
       IN  /\ hist' = PutVersion(hist, vnext, r.content)
           /\ vnext' = vnext + 1
           /\ vlast' = [VStart("restore") EXCEPT !.data = r.content,
                                               !.content = r.content]
    /\ UNCHANGED snap
    /\ UNCHANGED notVerVars

InitVer ==
    /\ hist = <<>>
    /\ vnext = 1
    /\ snap = NoSnap
    /\ vlast = NoVLast

NextVer ==
    \/ \E d \in VData : VWrite(d)
    \/ \E d \in VData : VWriteIfChanged(d)
    \/ \E dr \in BOOLEAN : VCompact(dr)
    \/ VListVersions
    \/ \E sel \in Selections : VSelectSnapshot(sel[1], sel[2])
    \/ \E d \in VData : VSnapshotWrite(d)
    \/ \E id \in 1..2, mode \in OpenModes : VOpenVersion(id, mode)
    \/ VRestore

(***************************************************************************)
(* PART 8 - delete, through the async node (async_storage_node.py over     *)
(* providers/fsspec_provider.py), through the sync node (node.py) and      *)
(* through the local backend (backends/local.py), on one small tree.       *)
(***************************************************************************)
DelPaths == {<<"f">>, <<"d">>, <<"d", "f">>}
DelProtocols == {"memory", "file"}

\* rm of a missing path: the local file system ends in os.remove, which
\* raises; the memory file system passes over a path it does not hold
RmMissingRaises(protocol) == protocol = "file"

\* a child of directory p exists
HasChildren(f, p) ==
    \E q \in DOMAIN f : Len(q) = Len(p) + 1 /\ IsPrefix(p, q) /\ f[q] # "absent"

\* providers/fsspec_provider.py AsyncFsspecImplementor.is_dir
ImplementorIsDir(f, p) == f[p] = "dir"

\* fs.rm of the file system behind the implementor: a directory goes with
\* its subtree, a file alone
FsRm(f, p, recursive, missingRaises) ==
    IF f[p] = "absent"
    THEN [err |-> IF missingRaises THEN "FileNotFoundError" ELSE "ok", fs |-> f]
    ELSE IF f[p] = "dir"
    THEN IF recursive
         THEN [err |-> "ok",
               fs |-> [q \in DOMAIN f |-> IF IsPrefix(p, q) THEN "absent" ELSE f[q]]]
         ELSE [err |-> "ValueError", fs |-> f]
    ELSE [err |-> "ok", fs |-> [f EXCEPT ![p] = "absent"]]

\* an implementor delete that removes a directory whatever the flag
ImplementorDeleteAlwaysRecursive(f, p, recursive, missingRaises) ==
    IF ImplementorIsDir(f, p) THEN FsRm(f, p, TRUE, missingRaises)
    ELSE FsRm(f, p, FALSE, missingRaises)

\* providers/fsspec_provider.py AsyncFsspecImplementor.delete
ImplementorDelete(f, p, recursive, missingRaises) ==
    IF ImplementorIsDir(f, p)
    THEN IF ~recursive THEN [err |-> "ValueError", fs |-> f]
         ELSE FsRm(f, p, TRUE, missingRaises)
    ELSE FsRm(f, p, FALSE, missingRaises)

NoPrev == [op |-> "none", stack |-> "none", path |-> <<>>, raised |-> "ok",
           mustExist |-> FALSE]
NoDLast == [op |-> "none", stack |-> "none", path |-> <<>>, recursive |-> "none",
            mustExist |-> FALSE, raised |-> "ok",
            before |-> [p \in FsPaths |-> "absent"], prev |-> NoPrev]

DStart(op, stack, path) ==
    [NoDLast EXCEPT !.op = op, !.stack = stack, !.path = path, !.before = dfs,
                    !.prev = [op |-> dlast.op, stack |-> dlast.stack,
                              path |-> dlast.path, raised |-> dlast.raised,
                              mustExist |-> dlast.mustExist]]

\* providers/fsspec_provider.py protocol_local / protocol_memory through
\* AsyncStorageManager.configure: a mount over a new, empty store
DConfigure(protocol) ==
    /\ protocol \in DelProtocols /\ protocol # dproto
    /\ dproto' = protocol
    /\ dfs' = [p \in FsPaths |-> IF p = <<>> THEN "dir" ELSE "absent"]
    /\ dlast' = [NoDLast EXCEPT !.op = "configure"]
    /\ UNCHANGED notDelVars

\* async_storage_node.py AsyncStorageNode.delete on a node made with
\* must_exist = mustExist: the existence check of resolved(), then the
\* implementor
AsyncDelete(p, recursive, mustExist) ==
    /\ p \in DelPaths
    /\ LET r == IF mustExist /\ dfs[p] = "absent"
                THEN [err |-> "FileNotFoundError", fs |-> dfs]
                ELSE ImplementorDelete(dfs, p, recursive, RmMissingRaises(dproto))
       IN  /\ dfs' = r.fs
           /\ dlast' = [DStart("delete", "async", p) EXCEPT
                           !.recursive = IF recursive THEN "true" ELSE "false",
                           !.mustExist = mustExist, !.raised = r.err]
    /\ UNCHANGED dproto
    /\ UNCHANGED notDelVars

\* node.py StorageNode.delete on a local mount of the same directory: no
\* flag, the backend is asked to delete recursively
SyncDelete(p) ==
    /\ p \in DelPaths /\ dproto = "file"
    /\ LET r == LocalDelete(dfs, p, TRUE)
       IN  /\ dfs' = r.fs
           /\ dlast' = [DStart("delete", "sync", p) EXCEPT !.raised = r.err]
    /\ UNCHANGED dproto
    /\ UNCHANGED notDelVars

\* backends/local.py LocalStorage.delete called with a flag
BackendDelete(p, recursive) ==
    /\ p \in DelPaths /\ dproto = "file"
    /\ LET r == LocalDelete(dfs, p, recursive)
       IN  /\ dfs' = r.fs
           /\ dlast' = [DStart("delete", "backend", p) EXCEPT
                           !.recursive = IF recursive THEN "true" ELSE "false",
                           !.raised = r.err]
    /\ UNCHANGED dproto
    /\ UNCHANGED notDelVars

\* backends/local.py LocalStorage.write_bytes
DWrite(p, data) ==
    /\ p \in DelPaths /\ data \in Data
    /\ LET r == LocalWriteBytes(dfs, p, data)
       IN  /\ dfs' = r.fs
           /\ dlast' = [DStart("write", "backend", p) EXCEPT !.raised = r.err]
    /\ UNCHANGED dproto
    /\ UNCHANGED notDelVars

\* backends/local.py LocalStorage.mkdir(parents=True, exist_ok=True)
DMkdir(p) ==
    /\ p \in DelPaths
    /\ LET r == LocalMkdir(dfs, p, TRUE, TRUE)
       IN  /\ dfs' = r.fs
           /\ dlast' = [DStart("mkdir", "backend", p) EXCEPT !.raised = r.err]
    /\ UNCHANGED dproto
    /\ UNCHANGED notDelVars

InitDel ==
    /\ dproto = "memory"
    /\ dfs = [p \in FsPaths |-> IF p = <<>> THEN "dir" ELSE "absent"]
    /\ dlast = NoDLast

NextDel ==
    \/ \E pr \in DelProtocols : DConfigure(pr)
    \/ \E p \in DelPaths, rec \in BOOLEAN, me \in BOOLEAN : AsyncDelete(p, rec, me)
    \/ \E p \in DelPaths : SyncDelete(p)
    \/ \E p \in DelPaths, rec \in BOOLEAN : BackendDelete(p, rec)
    \/ \E p \in DelPaths, d \in Data : DWrite(p, d)
    \/ \E p \in DelPaths : DMkdir(p)

(***************************************************************************)
(* PART 9 - write through the async node: the resolved() wrapper decides   *)
(* about the parent directory, then the method writes                      *)
(* (node_decorators.py resolved, async_storage_node.py write).             *)
(***************************************************************************)
WritePaths == {<<"f">>, <<"d", "f">>}
\* how the caller passes 'parents' to write(data, parents=True)
ParentsArgs == {"omitted", "kw_true", "kw_false", "pos_true", "pos_false"}

\* kwargs.get("parents") of the wrapper: only a keyword argument is in kwargs
KwargsParents(arg) ==
    CASE arg = "kw_true" -> "true" [] arg = "kw_false" -> "false" [] OTHER -> "none"

\* node_decorators.py resolved.async_wrapper: should_create, by priority
\* kwargs['parents'], then the node's autocreate
ShouldCreate(arg, nodeAutocreate) ==
    IF KwargsParents(arg) # "none" THEN KwargsParents(arg) = "true" ELSE nodeAutocreate

\* a mkdir that makes the directory anew, dropping what it held
ImplementorMkdirAnew(f, p) ==
    [err |-> "ok",
     fs |-> [q \in DOMAIN f |->
                IF q = p THEN "dir"
                ELSE IF IsPrefix(p, q) THEN "absent"
                ELSE IF q \in ProperAncestors(p) /\ f[q] = "absent" THEN "dir"
                ELSE f[q]]]

\* providers/fsspec_provider.py AsyncFsspecImplementor.mkdir(parents=True,
\* exist_ok=True)
ImplementorMkdir(f, p) ==
    IF f[p] \notin {"absent", "dir"} THEN [err |-> "FileExistsError", fs |-> f]
    ELSE [err |-> "ok", fs |-> [WithParents(f, p) EXCEPT ![p] = "dir"]]

\* providers/fsspec_provider.py AsyncFsspecImplementor.write_bytes
ImplementorWriteBytes(f, p, data) ==
    IF f[p] = "dir" THEN [err |-> "IsADirectoryError", fs |-> f]
    ELSE [err |-> "ok", fs |-> [WithParents(f, p) EXCEPT ![p] = data]]

\* node_decorators.py resolved.async_wrapper around
\* async_storage_node.py AsyncStorageNode.write: the existence check, the
\* parent step, the method; parentAtWrite tells whether the parent existed
\* when the method ran
ResolvedWrite(f, p, data, arg, nodeAutocreate, mustExist) ==
    IF mustExist /\ f[p] = "absent"
    THEN [err |-> "FileNotFoundError", fs |-> f, ran |-> FALSE, parentAtWrite |-> FALSE]
    ELSE IF Parent(p) = <<>>
    THEN LET w == ImplementorWriteBytes(f, p, data)
         IN  [err |-> w.err, fs |-> w.fs, ran |-> TRUE, parentAtWrite |-> TRUE]
    ELSE IF ShouldCreate(arg, nodeAutocreate)
    THEN LET m == ImplementorMkdir(f, Parent(p))
             w == ImplementorWriteBytes(m.fs, p, data)
         IN  IF m.err # "ok"
             THEN [err |-> m.err, fs |-> m.fs, ran |-> FALSE, parentAtWrite |-> FALSE]
             ELSE [err |-> w.err, fs |-> w.fs, ran |-> TRUE,
                   parentAtWrite |-> m.fs[Parent(p)] = "dir"]
    ELSE IF f[Parent(p)] = "absent"
    THEN [err |-> "FileNotFoundError", fs |-> f, ran |-> FALSE, parentAtWrite |-> FALSE]
    ELSE LET w == ImplementorWriteBytes(f, p, data)
         IN  [err |-> w.err, fs |-> w.fs, ran |-> TRUE, parentAtWrite |-> TRUE]

NoWLast == [op |-> "none", path |-> <<>>, arg |-> "omitted", nodeAutocreate |-> FALSE,
            mustExist |-> FALSE, raised |-> "ok", ran |-> FALSE,
            parentAtWrite |-> FALSE, before |-> [p \in FsPaths |-> "absent"]]

\* await node.write(data, ...) on a node made with the given autocreate and
\* must_exist
WWrite(p, data, arg, nodeAutocreate, mustExist) ==
    /\ p \in WritePaths /\ data \in Data /\ arg \in ParentsArgs
    /\ LET r == ResolvedWrite(wfs, p, data, arg, nodeAutocreate, mustExist)
       IN  /\ wfs' = r.fs
           /\ wlast' = [NoWLast EXCEPT !.op = "write", !.path = p, !.arg = arg,
                           !.nodeAutocreate = nodeAutocreate, !.mustExist = mustExist,
                           !.raised = r.err, !.ran = r.ran,
                           !.parentAtWrite = r.parentAtWrite, !.before = wfs]
    /\ UNCHANGED notWrVars

\* await node.mkdir() on the directory
WMkdir ==
    /\ LET r == ImplementorMkdir(wfs, <<"d">>)
       IN  /\ wfs' = r.fs
           /\ wlast' = [NoWLast EXCEPT !.op = "mkdir", !.path = <<"d">>,
                                      !.raised = r.err, !.before = wfs]
    /\ UNCHANGED notWrVars

\* await node.delete(recursive=True) on a path that exists
WDelete(p) ==
    /\ p \in DOMAIN wfs /\ p # <<>> /\ wfs[p] # "absent"
    /\ LET r == ImplementorDelete(wfs, p, TRUE, FALSE)
       IN  /\ wfs' = r.fs
           /\ wlast' = [NoWLast EXCEPT !.op = "delete", !.path = p,
                                      !.raised = r.err, !.before = wfs]
    /\ UNCHANGED notWrVars

InitWr ==
    /\ wfs = [p \in FsPaths |-> IF p = <<>> THEN "dir" ELSE "absent"]
    /\ wlast = NoWLast

NextWr ==
    \/ \E p \in WritePaths, d \in Data, arg \in ParentsArgs, ac \in BOOLEAN,
          me \in BOOLEAN : WWrite(p, d, arg, ac, me)
    \/ WMkdir
    \/ \E p \in FsPaths : WDelete(p)

(***************************************************************************)
(* PART 10 - mount tables: AsyncStorageManager.configure / remove_mount    *)
(* (async_storage_manager.py) on a record the caller holds, and            *)
(* StorageManager._configure_mount (manager.py) for an http mount.         *)
(***************************************************************************)
TableNames == {"m", "n"}
KeyAbsent == "<absent>"
\* the records a caller builds: a memory mount, an unknown protocol, an http
\* mount with or without a 'permissions' key
MountRecords ==
    [name : TableNames, protocol : {"memory", "nope"}, base_url : {KeyAbsent},
     permissions : {NoPerm}]
    \cup [name : {"m"}, protocol : {"http"}, base_url : {"http://h"},
          permissions : Perms \cup {NoPerm}]

\* src/src/genro_storage/providers/registry.py ProviderRegistry.get_protocol,
\* over the protocols of providers/fsspec_provider.py
KnownProtocol(protocol) == protocol \in {"memory", "http"}

\* providers/fsspec_provider.py: Model(**mount_config) of the protocol; a
\* key the model does not declare is ignored
ModelValidates(protocol, rec) ==
    protocol = "http" => rec.base_url # KeyAbsent

\* async_storage_manager.py AsyncStorageManager.configure, one record: what
\* becomes of the record, the table and the implementors
AsyncConfigure(rec, table, impls) ==
    IF rec.name = KeyAbsent
    THEN [err |-> "KeyError", rec |-> rec, table |-> table, impls |-> impls]
    ELSE LET r1 == [rec EXCEPT !.name = KeyAbsent]
             r2 == [r1 EXCEPT !.protocol = KeyAbsent]
         IN  IF rec.protocol = KeyAbsent
             THEN [err |-> "KeyError", rec |-> r1, table |-> table, impls |-> impls]
             ELSE IF ~KnownProtocol(rec.protocol)
             THEN [err |-> "ValueError", rec |-> r2, table |-> table, impls |-> impls]
             ELSE IF ~ModelValidates(rec.protocol, r2)
             THEN [err |-> "ValidationError", rec |-> r2, table |-> table,
                   impls |-> impls]
             ELSE [err |-> "ok", rec |-> r2,
                   table |-> [table EXCEPT ![rec.name] = Len(impls) + 1],
                   impls |-> Append(impls, [protocol |-> rec.protocol,
                                            status |-> "open",
                                            given |-> rec.permissions])]

\* manager.py StorageManager._configure_mount, types 'memory' and 'http'
\* (the record's protocol field stands for its 'type' key): the record is
\* only read, its 'permissions' key is not
SyncConfigure(rec, table) ==
    IF rec.name = KeyAbsent THEN [err |-> "StorageConfigError", table |-> table]
    ELSE IF rec.protocol = KeyAbsent THEN [err |-> "StorageConfigError", table |-> table]
    ELSE IF rec.protocol \notin {"memory", "http"}
    THEN [err |-> "StorageConfigError", table |-> table]
    ELSE IF rec.protocol = "http" /\ rec.base_url = KeyAbsent
    THEN [err |-> "StorageConfigError", table |-> table]
    ELSE [err |-> "ok",
          table |-> [table EXCEPT ![rec.name] = [type |-> rec.protocol,
                                                 given |-> rec.permissions]]]

NoSMount == [type |-> "<none>", given |-> NoPerm]
NoALast == [op |-> "none", name |-> KeyAbsent, protocol |-> KeyAbsent,
            permissions |-> NoPerm, raised |-> "ok", again |-> FALSE,
            installed |-> FALSE]

AStart(op) == [NoALast EXCEPT !.op = op, !.name = arec.name, !.protocol = arec.protocol,
                              !.permissions = arec.permissions]

\* the caller builds a new record
ANewRecord(rec) ==
    /\ rec \in MountRecords /\ rec # arec
    /\ arec' = rec
    /\ alast' = [NoALast EXCEPT !.op = "new_record"]
    /\ UNCHANGED <<atable, aimpl, stable>>
    /\ UNCHANGED notMgrVars

\* await storage.configure([record]); 'again' tells that this very record
\* was configured successfully by the call before
AConfigure ==
    /\ Len(aimpl) < MaxImpl
    /\ LET r == AsyncConfigure(arec, atable, aimpl)
       IN  /\ arec' = r.rec
           /\ atable' = r.table
           /\ aimpl' = r.impls
           /\ alast' = [AStart("configure") EXCEPT !.raised = r.err,
                           !.installed = (r.err = "ok"),
                           !.again = (alast.op = "configure" /\ alast.raised = "ok")]
    /\ UNCHANGED stable
    /\ UNCHANGED notMgrVars

\* async_storage_manager.py AsyncStorageManager.remove_mount
ARemoveMount(n) ==
    /\ n \in TableNames
    /\ IF atable[n] = 0
       THEN /\ alast' = [NoALast EXCEPT !.op = "remove_mount", !.name = n,
                            !.raised = "ValueError"]
            /\ UNCHANGED <<atable, aimpl>>
       ELSE /\ aimpl' = [aimpl EXCEPT ![atable[n]].status = "closed"]
            /\ atable' = [atable EXCEPT ![n] = 0]
            /\ alast' = [NoALast EXCEPT !.op = "remove_mount", !.name = n]
    /\ UNCHANGED <<arec, stable>>
    /\ UNCHANGED notMgrVars

\* manager.py StorageManager.configure([record])
SConfigure ==
    /\ LET r == SyncConfigure(arec, stable)
       IN  /\ stable' = r.table
           /\ alast' = [AStart("sync_configure") EXCEPT !.raised = r.err,
                           !.installed = (r.err = "ok"),
                           !.again = (alast.op = "sync_configure" /\ alast.raised = "ok")]
    /\ UNCHANGED <<arec, atable, aimpl>>
    /\ UNCHANGED notMgrVars

InitMgr ==
    /\ arec = [name |-> "m", protocol |-> "memory", base_url |-> KeyAbsent,
               permissions |-> NoPerm]
    /\ atable = [n \in TableNames |-> 0]
    /\ aimpl = <<>>
    /\ stable = [n \in TableNames |-> NoSMount]
    /\ alast = NoALast

NextMgr ==
    \/ \E rec \in MountRecords : ANewRecord(rec)
    \/ AConfigure
    \/ \E n \in TableNames : ARemoveMount(n)
    \/ SConfigure

(***************************************************************************)
(* PART 11 - address strings.  An address is a string, represented by the  *)
(* list of its pieces: the name "m", "..", the separator "/" and ":".      *)
(***************************************************************************)
Pieces == {"m", "..", "/", ":"}
Addresses == SeqsUpTo(Pieces, MaxAddrLen)
AddrMounts == {<<"m">>}       \* the mount names configured for this part

HasPiece(str, c) == \E i \in DOMAIN str : str[i] = c
FirstIndex(str, c) == CHOOSE i \in DOMAIN str : str[i] = c /\ \A j \in 1..(i - 1) : str[j] # c

\* str.split(c, 1) of a string that contains c
SplitFirst(str, c) ==
    LET i == FirstIndex(str, c)
    IN  [head |-> SubSeq(str, 1, i - 1), tail |-> SubSeq(str, i + 1, Len(str))]

\* str.split('/'): the list of segments, empty ones included
RECURSIVE SplitAll(_)
SplitAll(str) ==
    IF ~HasPiece(str, "/") THEN <<str>>
    ELSE LET sp == SplitFirst(str, "/") IN <<sp.head>> \o SplitAll(sp.tail)

\* '/'.join(parts)
RECURSIVE JoinAll(_)
JoinAll(parts) ==
    IF parts = <<>> THEN <<>>
    ELSE IF Len(parts) = 1 THEN parts[1]
    ELSE parts[1] \o <<"/">> \o JoinAll(Tail(parts))

\* manager.py StorageManager._normalize_path on a path string
NormalizePathString(path) ==
    IF path = <<>> THEN [err |-> "ok", path |-> <<>>]
    ELSE IF \E i \in DOMAIN SplitAll(path) : SplitAll(path)[i] = <<"..">>
    THEN [err |-> "ValueError", path |-> <<>>]
    ELSE [err |-> "ok",
          path |-> JoinAll(SelectSeq(SplitAll(path), LAMBDA seg : seg # <<>>))]

\* manager.py StorageManager.node(mount_or_path), no further path parts
SyncParse(a) ==
    LET mount == IF HasPiece(a, ":") THEN SplitFirst(a, ":").head ELSE a
        initial == IF HasPiece(a, ":") THEN SplitFirst(a, ":").tail ELSE <<>>
    IN  IF mount \notin AddrMounts
        THEN [err |-> "StorageNotFoundError", mount |-> mount, path |-> <<>>]
        ELSE [err |-> NormalizePathString(initial).err, mount |-> mount,
              path |-> NormalizePathString(initial).path]

\* async_storage_manager.py AsyncStorageManager.node(path) and
\* AsyncStorageNode.__init__: self.path is the text after the first ':'
AsyncParse(a) ==
    IF ~HasPiece(a, ":") THEN [err |-> "ValueError", mount |-> <<>>, path |-> <<>>]
    ELSE IF SplitFirst(a, ":").head \notin AddrMounts
    THEN [err |-> "ValueError", mount |-> SplitFirst(a, ":").head, path |-> <<>>]
    ELSE [err |-> "ok", mount |-> SplitFirst(a, ":").head,
          path |-> SplitFirst(a, ":").tail]

ParseBy(api, a) == IF api = "sync" THEN SyncParse(a) ELSE AsyncParse(a)

\* node.py StorageNode.fullpath: mount + ':' + path
NodeFullPath(node) == node.mount \o <<":">> \o node.path

\* storage.node(address) through either manager
NodeFromAddress(api, a) ==
    /\ api \in {"sync", "async"} /\ a \in Addresses
    /\ addr' = a
    /\ aerr' = ParseBy(api, a).err
    /\ anode' = IF ParseBy(api, a).err = "ok"
                THEN [api |-> api, mount |-> ParseBy(api, a).mount,
                      path |-> ParseBy(api, a).path]
                ELSE [api |-> api, mount |-> <<>>, path |-> <<>>]
    /\ UNCHANGED notAddrVars

SyncNodeFromAddress(a) == NodeFromAddress("sync", a)
AsyncNodeFromAddress(a) == NodeFromAddress("async", a)

InitAddr ==
    /\ addr = <<>>
    /\ anode = NoNode
    /\ aerr = "none"

NextAddr ==
    \/ \E a \in Addresses : SyncNodeFromAddress(a)
    \/ \E a \in Addresses : AsyncNodeFromAddress(a)

(***************************************************************************)
(* PART 12 - protocol registries: the class-level table of                 *)
(* async_POC/providers/registry.py (register, get_protocol) and the        *)
(* provider table of src/genro_storage/providers/registry.py               *)
(* (add_provider, get_protocol).                                           *)
(***************************************************************************)
ProtocolNames == {"x", "y"}
Descriptors == {"d1", "d2"}
NoDesc == "<none>"
ProviderNames == {"a", "b"}
\* what a provider's switcher answers for each protocol name
ProviderProtos == [ProtocolNames -> Descriptors \cup {NoDesc}]

\* async_POC registry.py ProviderRegistry.register
RegistryRegister(reg, name, desc) == [reg EXCEPT ![name] = desc]

\* async_POC registry.py ProviderRegistry.get_protocol
RegistryGetProtocol(reg, name) ==
    IF reg[name] = NoDesc THEN [err |-> "ValueError", desc |-> NoDesc]
    ELSE [err |-> "ok", desc |-> reg[name]]

ProviderIndex(provs, pname) ==
    IF \E i \in DOMAIN provs : provs[i].name = pname
    THEN CHOOSE i \in DOMAIN provs : provs[i].name = pname
    ELSE 0

\* src/src registry.py ProviderRegistry.add_provider: self.providers[name] =
\* instance; a dict keeps the position of a key that is assigned again
AddProviderTo(provs, pname, protos) ==
    IF ProviderIndex(provs, pname) # 0
    THEN [provs EXCEPT ![ProviderIndex(provs, pname)].protos = protos]
    ELSE Append(provs, [name |-> pname, protos |-> protos])

\* src/src registry.py ProviderRegistry.get_protocol: the answer of the first
\* provider, in insertion order, whose switcher knows the name
RECURSIVE ProvidersGetProtocol(_, _)
ProvidersGetProtocol(provs, name) ==
    IF provs = <<>> THEN [err |-> "ValueError", desc |-> NoDesc]
    ELSE IF Head(provs).protos[name] # NoDesc
    THEN [err |-> "ok", desc |-> Head(provs).protos[name]]
    ELSE ProvidersGetProtocol(Tail(provs), name)

NoLatest == [desc |-> NoDesc, by |-> "<nobody>"]
NoRLast == [op |-> "none", api |-> "none", name |-> NoDesc, desc |-> NoDesc,
            raised |-> "ok"]

\* ProviderRegistry.register(name, provider_class, protocol_method)
Register(name, desc) ==
    /\ name \in ProtocolNames /\ desc \in Descriptors
    /\ registry' = RegistryRegister(registry, name, desc)
    /\ latest' = [latest EXCEPT !["class"][name] = [desc |-> desc, by |-> "class"]]
    /\ rlast' = [NoRLast EXCEPT !.op = "register", !.api = "class"]
    /\ UNCHANGED providers
    /\ UNCHANGED notRegVars

\* registry.add_provider(name, provider_instance): every protocol the
\* provider's switcher knows is registered by this call; the registrations
\* of an instance that is replaced go with it
AddProvider(pname, protos) ==
    /\ pname \in ProviderNames /\ protos \in ProviderProtos
    /\ ProviderIndex(providers, pname) # 0 \/ Len(providers) < MaxProviders
    /\ providers' = AddProviderTo(providers, pname, protos)
    /\ latest' = [latest EXCEPT !["providers"] =
                     [n \in ProtocolNames |->
                         IF protos[n] # NoDesc THEN [desc |-> protos[n], by |-> pname]
                         ELSE IF latest["providers"][n].by = pname THEN NoLatest
                         ELSE latest["providers"][n]]]
    /\ rlast' = [NoRLast EXCEPT !.op = "add_provider", !.api = "providers"]
    /\ UNCHANGED registry
    /\ UNCHANGED notRegVars

\* ProviderRegistry.get_protocol(name) of either registry
GetProtocol(api, name) ==
    /\ api \in {"class", "providers"} /\ name \in ProtocolNames
    /\ LET r == IF api = "class" THEN RegistryGetProtocol(registry, name)
                ELSE ProvidersGetProtocol(providers, name)
       IN  rlast' = [NoRLast EXCEPT !.op = "get_protocol", !.api = api, !.name = name,
                                    !.desc = r.desc, !.raised = r.err]
    /\ UNCHANGED <<registry, providers, latest>>
    /\ UNCHANGED notRegVars

InitReg ==
    /\ registry = [n \in ProtocolNames |-> NoDesc]
    /\ providers = <<>>
    /\ latest = [api \in {"class", "providers"} |-> [n \in ProtocolNames |-> NoLatest]]
    /\ rlast = NoRLast

NextReg ==
    \/ \E n \in ProtocolNames, d \in Descriptors : Register(n, d)
    \/ \E pn \in ProviderNames, pr \in ProviderProtos : AddProvider(pn, pr)
    \/ \E api \in {"class", "providers"}, n \in ProtocolNames : GetProtocol(api, n)

(***************************************************************************)
(* PART 13 - progress reporting of a directory copy (node.py               *)
(* _copy_dir_with_skip).  The calls made while the copy runs are recorded  *)
(* as a list of events: the skip decision of a file, the copy, the         *)
(* callbacks on_skip / on_file / progress with their arguments.            *)
(***************************************************************************)
ProgSkips == {"never", "exists", "size"}

Event(ev, name, idx, total) == [ev |-> ev, name |-> name, idx |-> idx, total |-> total]

\* a loop body that reports progress before it looks at the file
CopyDirStepProgressFirst(name, destv, skip, idx, total, progress, onFile, onSkip) ==
    LET r == ShouldSkipFile(SrcContent, DestAsFile(destv), skip, "none", FALSE)
    IN  [dest |-> IF r.skip THEN destv ELSE SrcContent,
         events |->
            (IF progress THEN <<Event("progress", name, idx, total)>> ELSE <<>>)
            \o <<Event(IF r.skip THEN "skip" ELSE "copy", name, 0, 0)>>
            \o (IF r.skip /\ onSkip THEN <<Event("on_skip", name, 0, 0)>> ELSE <<>>)
            \o (IF ~r.skip /\ onFile THEN <<Event("on_file", name, 0, 0)>> ELSE <<>>)]

\* node.py _copy_dir_with_skip, the body of `for idx, (src, dst) in
\* enumerate(files_to_process, 1)`
CopyDirStep(name, destv, skip, idx, total, progress, onFile, onSkip) ==
    LET r == ShouldSkipFile(SrcContent, DestAsFile(destv), skip, "none", FALSE)
    IN  [dest |-> IF r.skip THEN destv ELSE SrcContent,
         events |->
            <<Event(IF r.skip THEN "skip" ELSE "copy", name, 0, 0)>>
            \o (IF r.skip /\ onSkip THEN <<Event("on_skip", name, 0, 0)>> ELSE <<>>)
            \o (IF ~r.skip /\ onFile THEN <<Event("on_file", name, 0, 0)>> ELSE <<>>)
            \o (IF progress THEN <<Event("progress", name, idx, total)>> ELSE <<>>)]

\* node.py _copy_dir_with_skip, the loop over files_to_process from position
\* idx on, with total = len(files_to_process) taken before the loop
RECURSIVE CopyDirLoop(_, _, _, _, _, _, _, _)
CopyDirLoop(files, dst, skip, idx, total, progress, onFile, onSkip) ==
    IF files = <<>> THEN [dst |-> dst, events |-> <<>>]
    ELSE LET name == Head(files)
             one == CopyDirStep(name, dst[name], skip, idx, total, progress,
                                onFile, onSkip)
             rest == CopyDirLoop(Tail(files), [dst EXCEPT ![name] = one.dest],
                                 skip, idx + 1, total, progress, onFile, onSkip)
         IN  [dst |-> rest.dst, events |-> one.events \o rest.events]

NoGLast == [op |-> "none", skip |-> "<none>", progress |-> FALSE, total |-> 0,
            events |-> <<>>]

\* node.py StorageNode.copy with a directory as source and the callbacks
\* progress / on_file / on_skip given or not
ProgressCopy(skip, progress, onFile, onSkip) ==
    /\ skip \in ProgSkips
    /\ IF skip # "never" \/ progress \/ onFile \/ onSkip
       THEN LET files == CollectFiles(gsrc)
                r == CopyDirLoop(files, gdst, skip, 1, Len(files), progress,
                                 onFile, onSkip)
            IN  /\ gdst' = r.dst
                /\ glast' = [op |-> "copy", skip |-> skip, progress |-> progress,
                             total |-> Len(files), events |-> r.events]
       ELSE /\ gdst' = BackendCopyDir(gsrc, gdst)
            /\ glast' = [NoGLast EXCEPT !.op = "plain_copy", !.skip = skip]
    /\ UNCHANGED gsrc
    /\ UNCHANGED notProgVars

\* a file of the source directory is written or removed
ProgSourceSet(name, present) ==
    /\ name \in FileNames
    /\ (name \in gsrc) # present
    /\ gsrc' = IF present THEN gsrc \cup {name} ELSE gsrc \ {name}
    /\ glast' = [NoGLast EXCEPT !.op = "source_set"]
    /\ UNCHANGED gdst
    /\ UNCHANGED notProgVars

\* a file of the destination directory is written or removed
ProgDestSet(name, v) ==
    /\ name \in FileNames /\ v \in DestContents \cup {"absent"}
    /\ gdst[name] # v
    /\ gdst' = [gdst EXCEPT ![name] = v]
    /\ glast' = [NoGLast EXCEPT !.op = "dest_set"]
    /\ UNCHANGED gsrc
    /\ UNCHANGED notProgVars

InitProg ==
    /\ gsrc = {}
    /\ gdst = [n \in FileNames |-> "absent"]
    /\ glast = NoGLast

NextProg ==
    \/ \E sk \in ProgSkips, pg \in BOOLEAN, cb \in CallbackChoices :
          ProgressCopy(sk, pg, cb[1], cb[2])
    \/ \E n \in FileNames, pr \in BOOLEAN : ProgSourceSet(n, pr)
    \/ \E n \in FileNames, v \in DestContents \cup {"absent"} : ProgDestSet(n, v)

(***************************************************************************)
(* PART 14 - writes started together on different addresses               *)
(* (asyncio.gather of node.write calls).  Each write is a coroutine that   *)
(* suspends at every await of the resolved() wrapper: the parent step      *)
(* (implementor.mkdir or implementor.exists), then the method              *)
(* (implementor.write_bytes).  The event loop resumes them in any order.   *)
(***************************************************************************)
\* the addresses of the tasks, task t writing TaskPaths[t]: two files of one
\* directory and files of the root
TaskPaths == << <<"d", "f">>, <<"d", "g">>, <<"f">>, <<"g">> >>
ConcPaths == {<<>>, <<"d">>, <<"d", "f">>, <<"d", "g">>, <<"f">>, <<"g">>}
Tasks == 1..MaxTasks

IdleTask == [pc |-> "idle", data |-> "x", create |-> TRUE]
Finished(t) == ctask[t].pc \in {"done", "failed"}
\* some task other than t has made its parent step and not yet its write
MidWay(t) == \E u \in Tasks : u # t /\ ctask[u].pc = "method"

\* asyncio.gather(*[node.write(data) for node in nodes]): every coroutine is
\* created and scheduled; none has run yet
Gather(datas, creates) ==
    /\ \A t \in Tasks : ctask[t].pc = "idle"
    /\ datas \in [Tasks -> Data] /\ creates \in [Tasks -> BOOLEAN]
    /\ ctask' = [t \in Tasks |-> [pc |-> "parent", data |-> datas[t],
                                   create |-> creates[t]]]
    /\ coverlap' = FALSE
    /\ UNCHANGED cfs
    /\ UNCHANGED notConcVars

\* node_decorators.py resolved.async_wrapper, step 2 for a write method, up
\* to the await of step 3
ParentStep(t) ==
    /\ t \in Tasks /\ ctask[t].pc = "parent"
    /\ LET parent == Parent(TaskPaths[t])
       IN  IF parent = <<>>
           THEN /\ ctask' = [ctask EXCEPT ![t].pc = "method"]
                /\ UNCHANGED cfs
           ELSE IF ctask[t].create
           THEN LET m == ImplementorMkdir(cfs, parent)
                IN  /\ cfs' = m.fs
                    /\ ctask' = [ctask EXCEPT ![t].pc =
                                    IF m.err = "ok" THEN "method" ELSE "failed"]
           ELSE /\ ctask' = [ctask EXCEPT ![t].pc =
                                IF cfs[parent] = "absent" THEN "failed" ELSE "method"]
                /\ UNCHANGED cfs
    /\ coverlap' = (coverlap \/ MidWay(t))
    /\ UNCHANGED notConcVars

\* async_storage_node.py AsyncStorageNode.write: await
\* implementor.write_bytes(full_path, data)
MethodStep(t) ==
    /\ t \in Tasks /\ ctask[t].pc = "method"
    /\ LET w == ImplementorWriteBytes(cfs, TaskPaths[t], ctask[t].data)
       IN  /\ cfs' = w.fs
           /\ ctask' = [ctask EXCEPT ![t].pc = IF w.err = "ok" THEN "done" ELSE "failed"]
    /\ coverlap' = (coverlap \/ MidWay(t))
    /\ UNCHANGED notConcVars

\* gather has returned; the caller goes on, keeping the files or removing
\* the directory d with what it holds
AfterGather(cleanup) ==
    /\ \A t \in Tasks : Finished(t)
    /\ ctask' = [t \in Tasks |-> IdleTask]
    /\ coverlap' = FALSE
    /\ cfs' = IF cleanup THEN ImplementorDelete(cfs, <<"d">>, TRUE, FALSE).fs ELSE cfs
    /\ UNCHANGED notConcVars

InitConc ==
    /\ cfs = [p \in ConcPaths |-> IF p = <<>> THEN "dir" ELSE "absent"]
    /\ ctask = [t \in Tasks |-> IdleTask]
    /\ coverlap = FALSE

NextConc ==
    \/ \E ds \in [Tasks -> Data], cr \in [Tasks -> BOOLEAN] : Gather(ds, cr)
    \/ \E t \in Tasks : ParentStep(t)
    \/ \E t \in Tasks : MethodStep(t)
    \/ \E cl \in BOOLEAN : AfterGather(cl)

(***************************************************************************)
(* PART 15 - move of a file within a mount (node.py move: copy to the      *)
(* destination, then delete of the source), on a local mount               *)
(* (backends/local.py) and on a memory mount (backends/fsspec.py).         *)
(***************************************************************************)
MovePaths == {<<"f">>, <<"g">>, <<"d", "f">>}
MoveFsPaths == MovePaths \cup {<<>>, <<"d">>}
MountKinds == {"local", "memory"}

\* backends/local.py LocalStorage.copy of a file to a local destination:
\* shutil.copy2 refuses to copy a file onto itself
LocalCopy(f, src, dst) ==
    IF f[src] = "absent" THEN [err |-> "FileNotFoundError", fs |-> f]
    ELSE IF src = dst THEN [err |-> "SameFileError", fs |-> f]
    ELSE [err |-> "ok", fs |-> [WithParents(f, dst) EXCEPT ![dst] = f[src]]]

\* backends/fsspec.py FsspecBackend.copy within one file system:
\* fs.copy(src, dest), which for the memory file system stores the source's
\* bytes under the destination path
FsspecCopy(f, src, dst) ==
    IF f[src] = "absent" THEN [err |-> "FileNotFoundError", fs |-> f]
    ELSE [err |-> "ok", fs |-> [WithParents(f, dst) EXCEPT ![dst] = f[src]]]

\* backends/fsspec.py FsspecBackend.delete(path, recursive=True)
FsspecDelete(f, p) ==
    IF f[p] = "absent" THEN [err |-> "ok", fs |-> f]
    ELSE [err |-> "ok", fs |-> [q \in DOMAIN f |-> IF IsPrefix(p, q) THEN "absent" ELSE f[q]]]

\* node.py StorageNode.copy(dest) with no skip strategy and no callback
MoveCopy(kind, f, src, dst) ==
    IF f[src] = "absent" THEN [err |-> "FileNotFoundError", fs |-> f]
    ELSE IF kind = "local" THEN LocalCopy(f, src, dst)
    ELSE FsspecCopy(f, src, dst)

\* node.py StorageNode.move: self.copy(dest); self.delete(); the node then
\* points to the destination
NodeMove(kind, f, src, dst) ==
    LET c == MoveCopy(kind, f, src, dst)
        d == IF kind = "local" THEN LocalDelete(c.fs, src, TRUE)
             ELSE FsspecDelete(c.fs, src)
    IN  IF c.err # "ok" THEN [err |-> c.err, fs |-> c.fs]
        ELSE [err |-> d.err, fs |-> d.fs]

NoMvLast == [op |-> "none", src |-> <<>>, dst |-> <<>>, raised |-> "ok",
             content |-> "absent"]

\* node.move(dest) for a node on src and a destination address on the same mount
Move(src, dst) ==
    /\ src \in MovePaths /\ dst \in MovePaths
    /\ LET r == NodeMove(mvkind, mvfs, src, dst)
       IN  /\ mvfs' = r.fs
           /\ mvlast' = [op |-> "move", src |-> src, dst |-> dst, raised |-> r.err,
                         content |-> mvfs[src]]
    /\ UNCHANGED mvkind
    /\ UNCHANGED notMoveVars

\* node.write_bytes(data)
MoveWrite(p, data) ==
    /\ p \in MovePaths /\ data \in Data
    /\ mvfs[p] # data
    /\ mvfs' = [WithParents(mvfs, p) EXCEPT ![p] = data]
    /\ mvlast' = [NoMvLast EXCEPT !.op = "write", !.src = p]
    /\ UNCHANGED mvkind
    /\ UNCHANGED notMoveVars

\* storage.configure([...]) with a mount of the given type, empty
MoveConfigure(kind) ==
    /\ kind \in MountKinds /\ kind # mvkind
    /\ mvkind' = kind
    /\ mvfs' = [p \in MoveFsPaths |-> IF p = <<>> THEN "dir" ELSE "absent"]
    /\ mvlast' = [NoMvLast EXCEPT !.op = "configure"]
    /\ UNCHANGED notMoveVars

InitMove ==
    /\ mvfs = [p \in MoveFsPaths |-> IF p = <<>> THEN "dir" ELSE "absent"]
    /\ mvkind = "local"
    /\ mvlast = NoMvLast

NextMove ==
    \/ \E src \in MovePaths, dst \in MovePaths : Move(src, dst)
    \/ \E p \in MovePaths, d \in Data : MoveWrite(p, d)
    \/ \E k \in MountKinds : MoveConfigure(k)

(***************************************************************************)
(* Specifications: each part runs on its own variables from the common     *)
(* initial state; Spec interleaves them all.                               *)
(***************************************************************************)
Init == InitPath /\ InitPerm /\ InitSync /\ InitCache /\ InitCopy /\ InitTree /\ InitVer /\ InitDel /\ InitWr /\ InitMgr /\ InitAddr /\ InitReg /\ InitProg /\ InitConc /\ InitMove

Next == NextPath \/ NextPerm \/ NextSync \/ NextCache \/ NextCopy \/ NextTree \/ NextVer \/ NextDel \/ NextWr \/ NextMgr \/ NextAddr \/ NextReg \/ NextProg \/ NextConc \/ NextMove

Spec == Init /\ [][Next]_vars
SpecPath == Init /\ [][NextPath]_vars
SpecPerm == Init /\ [][NextPerm]_vars
SpecSync == Init /\ [][NextSync]_vars
SpecCache == Init /\ [][NextCache]_vars
SpecCopy == Init /\ [][NextCopy]_vars
SpecTree == Init /\ [][NextTree]_vars
SpecVer == Init /\ [][NextVer]_vars
SpecDel == Init /\ [][NextDel]_vars
SpecWr == Init /\ [][NextWr]_vars
SpecMgr == Init /\ [][NextMgr]_vars
SpecAddr == Init /\ [][NextAddr]_vars
SpecReg == Init /\ [][NextReg]_vars
SpecProg == Init /\ [][NextProg]_vars
SpecConc == Init /\ [][NextConc]_vars
SpecMove == Init /\ [][NextMove]_vars

(***************************************************************************)
(* PROPERTIES                                                              *)
(***************************************************************************)

\* C1: no path with a ".." segment reaches a backend adapter: neither a
\* node obtained from a manager or by child navigation holds such a path,
\* nor is such a path ever handed to the backend.
C1_NoDotDotReachesBackend ==
    /\ (pnode # NoNode => ~HasDotDot(pnode.path))
    /\ (backendArg # NoPath => ~HasDotDot(backendArg))

\* the permission level a mount was configured with ('delete' when the
\* configuration gives none)
Level(b) == IF b.given = NoPerm THEN "delete" ELSE b.given

\* C2: the owning mount's permission level decides every mutating
\* operation: on a readonly mount write, delete and mkdir fail with
\* PermissionError; on a readwrite mount delete fails with PermissionError
\* and write is permitted; on a delete mount (also the default) all are
\* permitted; a rejected operation leaves the backend unchanged.
C2_PermissionLevelsEnforced ==
    (mnode # NoNode /\ mlast.op \in {"write", "delete", "mkdir"}) =>
        LET lvl == Level(mnode.backend)
        IN  /\ (lvl = "readonly" => mlast.outcome = "PermissionError")
            /\ (lvl = "readwrite" /\ mlast.op = "delete" => mlast.outcome = "PermissionError")
            /\ (lvl = "readwrite" /\ mlast.op = "write" => mlast.outcome # "PermissionError")
            /\ (lvl = "delete" => mlast.outcome # "PermissionError")
            /\ (mlast.outcome = "PermissionError" => ~mlast.changed)

\* the node in hand belongs to the derived mount pub, configured from the
\* parent mount m with permissions 'readonly'
PubReadonlyNode ==
    /\ mnode # NoNode
    /\ mnode.mount = "pub"
    /\ mnode.backend.kind = "relative"
    /\ mnode.backend.parent = "m"
    /\ mnode.backend.given = "readonly"

\* C3: through a node of the derived mount pub (parent m, permissions
\* 'readonly') every write raises PermissionError and leaves the parent's
\* content unchanged, and a read returns the content of the underlying file
\* of m whenever that file exists.
C3_ReadonlyDerivedMount ==
    PubReadonlyNode =>
        LET under == mnode.backend.prefix \o mnode.path
        IN  /\ (mlast.op = "write" =>
                    mlast.outcome = "PermissionError" /\ ~mlast.changed)
            /\ (mlast.op = "read" /\ fs[under] \in Data =>
                    mlast.outcome = "ok" /\ mlast.value = fs[under])

\* C3 witness: a write through pub was rejected while the underlying file exists
C3_Witness ==
    /\ PubReadonlyNode
    /\ mlast.op = "write"
    /\ mlast.outcome = "PermissionError"
    /\ fs[mnode.backend.prefix \o mnode.path] \in Data

\* C4: once a call of a wrapped method has observed a running loop, every
\* later call of that method returns the pending awaitable, also where no
\* loop is running: a call made in a loop, or with the observation cached,
\* returns the awaitable and leaves the observation cached, and the cached
\* observation is dropped by nothing but the explicit reset.
C4_LoopOutcomeCached ==
    /\ [](slast.op = "call" /\ (slast.ctxLoop \/ slast.cachedBefore) =>
             slast.ret = "coroutine" /\ cachedHasLoop[slast.method])
    /\ [][\A m \in Methods :
             cachedHasLoop[m] /\ ~cachedHasLoop'[m] =>
                 slast'.op = "reset" /\ slast'.method = m]_vars

\* C4 witness: loop first, then a call where no loop runs returns an awaitable
C4_Witness ==
    /\ slast.op = "call"
    /\ slast.cachedBefore
    /\ ~slast.ctxLoop
    /\ slast.ret = "coroutine"

\* C5: the "no loop" outcome is not cached: a blocking call returns the
\* finished result and leaves nothing cached, a call from inside a loop
\* returns a pending awaitable whatever blocking calls came before, and
\* awaiting it completes with the result.
C5_NoLoopOutcomeNotCached ==
    /\ (slast.op = "call" /\ ~slast.ctxLoop /\ ~slast.cachedBefore =>
            /\ ~cachedHasLoop[slast.method]
            /\ (slast.body = "ok" => slast.ret = "result"))
    /\ (slast.op = "call" /\ slast.ctxLoop =>
            slast.ret = "coroutine" /\ slast.body \in pending[slast.method])
    /\ (slast.op = "await" /\ slast.body = "ok" => slast.ret = "result")

\* C5 witness: after blocking calls, with nothing cached, a call inside a
\* loop returned the awaitable
C5_Witness ==
    /\ slast.op = "call"
    /\ slast.ctxLoop
    /\ ~slast.cachedBefore
    /\ blocking[slast.method] = MaxBlocking
    /\ slast.ret = "coroutine"

\* C6: a blocking call attempted inside a running event loop fails with
\* the dedicated InvalidContextError; the runtime's generic error never
\* reaches the caller.
C6_BlockingInLoopInvalidContext ==
    /\ (slast.op = "facade" /\ slast.ctxLoop => slast.ret = "InvalidContextError")
    /\ (slast.op \in {"facade", "call"} => slast.ret # "RuntimeError:generic")

\* C7: on a cached node, every successful query of a property returns the
\* value of the first successful query since the last invalidate/refresh,
\* also after a write through the same node.
C7_MemoizedUntilInvalidate ==
    (cnode.cached /\ clast.op = "query" /\ clast.prop = watch /\ clast.outcome = "ok") =>
        clast.value = firstSeen

\* C8: after invalidate/refresh no memoized state remains, and the next
\* query of a property is answered by the backend: it raises what the
\* backend raises and returns what the backend holds at that time.
C8_InvalidateDropsMemo ==
    /\ (clast.op \in {"invalidate", "refresh"} => \A p \in Props : memo[p] = NoMemo)
    /\ (clast.op = "query" /\ clast.freshBefore = "invalidated" =>
            LET r == ImplementorProp(cfile, clast.prop)
            IN  clast.outcome = r.err /\ clast.value = r.value)

\* C8 witness: a cached node dropped a memoized value that the backend no
\* longer holds
C8_Witness ==
    /\ cnode.cached
    /\ clast.op \in {"invalidate", "refresh"}
    /\ clast.value # NoMemo
    /\ ImplementorProp(cfile, clast.prop).value # clast.value

\* C9: with strategy 'exists' and the destination present, a copy of a
\* file leaves the destination as it was, on_skip fires exactly once with a
\* reason containing "exists", and on_file does not fire.
C9_SkipExistsLeavesDest ==
    (/\ klast.op = "copy" /\ klast.outcome = "ok"
     /\ klast.skip = "exists" /\ klast.destBefore.kind # "absent") =>
        /\ dstFile = klast.destBefore
        /\ ~klast.copied
        /\ klast.onFile = 0
        /\ (klast.onSkipGiven =>
                Len(klast.onSkip) = 1 /\ HasPiece(klast.onSkip[1], "exists"))

\* C9 witness: both callbacks given, the destination held other content
C9_Witness ==
    /\ klast.op = "copy" /\ klast.outcome = "ok"
    /\ klast.skip = "exists"
    /\ klast.destBefore.kind = "file"
    /\ klast.destBefore.data # srcFile
    /\ klast.onSkipGiven /\ klast.onFileGiven

\* C10: when the size, hash or custom comparison raises, the copy does not
\* fail and does not skip: the file is copied, on_file fires once, on_skip
\* does not fire.
C10_ComparisonErrorCopies ==
    (klast.op = "copy" /\ klast.raised) =>
        /\ klast.outcome = "ok"
        /\ klast.skip \in {"size", "hash", "custom"}
        /\ klast.copied
        /\ dstFile = BackendCopy(srcFile, klast.destBefore)
        /\ klast.onSkip = <<>>
        /\ (klast.onFileGiven => klast.onFile = 1)

\* C10 witness: the size comparison raised, over a destination file of other
\* content, with on_file given
C10_Witness ==
    /\ klast.op = "copy" /\ klast.raised
    /\ klast.skip = "size"
    /\ klast.destBefore.kind = "file"
    /\ klast.destBefore.data # srcFile
    /\ klast.onFileGiven /\ klast.onSkipGiven

\* C11: a directory copy passes each file through include, exclude, the
\* filter predicate and the skip strategy in that order and the first stage
\* that rejects decides: a file matching no include pattern is skipped as
\* "not included" with no other stage evaluated, an excluded one as
\* "excluded" before the predicate and the strategy, a filtered one before
\* the strategy, and only a file that passes all three reaches the strategy.
IncludeRejects(name) ==
    tlast.inc # {} /\ ~\E p \in tlast.inc : GlobMatch(p, name)
ExcludeRejects(name) ==
    tlast.exc # {} /\ \E p \in tlast.exc : GlobMatch(p, name)
FilterRejects(name) ==
    tlast.fn # "none" /\ FilterFn(tlast.fn, name) # "true"
RECURSIVE Collapse(_)
Collapse(h) ==
    IF Len(h) <= 1 THEN h
    ELSE LET front == SubSeq(h, 1, Len(h) - 1)
         IN  IF Fingerprint(h[Len(h)].data) = Fingerprint(h[Len(h) - 1].data)
             THEN Collapse(front)
             ELSE Append(Collapse(front), h[Len(h)])

\* C13: compact removes exactly the versions whose fingerprint equals that
\* of their immediate predecessor, oldest to newest: what remains is the
\* original sequence with every run of equal fingerprints collapsed to one,
\* in the original order, removed_count is the number removed, and the
\* fingerprints [A, A, B, A] give removed_count 1 and [A, B, A].
C13_CompactRemovesConsecutiveDuplicates ==
    (vlast.op = "compact" /\ ~vlast.dryRun) =>
        /\ hist = Collapse(vlast.before)
        /\ vlast.removed = Len(vlast.before) - Len(hist)
        /\ VersionIds(vlast.before) \ VersionIds(hist) =
              {vlast.before[i].version_id : i \in
                 {j \in 2..Len(vlast.before) :
                    Fingerprint(vlast.before[j].data)
                       = Fingerprint(vlast.before[j - 1].data)}}
        /\ Fingerprints(vlast.before) = <<Md5("x"), Md5("x"), Md5("y"), Md5("x")>> =>
              vlast.removed = 1 /\ Fingerprints(hist) = <<Md5("x"), Md5("y"), Md5("x")>>

\* a compact of [A, A, B, A]
C13_Witness ==
    /\ vlast.op = "compact" /\ ~vlast.dryRun
    /\ Fingerprints(vlast.before) = <<Md5("x"), Md5("x"), Md5("y"), Md5("x")>>
    /\ Len(hist) = 3

\* C14: compact never removes the single remaining version: a file that
\* has been written keeps at least one version whatever compacts are made.
C14_CompactKeepsOneVersion ==
    /\ vnext > 1 => Len(hist) >= 1
    /\ (vlast.op = "compact" /\ Len(vlast.before) = 1) =>
          hist = vlast.before /\ vlast.removed = 0

\* a compact that removed versions and left exactly one
C14_Witness ==
    /\ vlast.op = "compact" /\ ~vlast.dryRun
    /\ vlast.removed >= 2 /\ Len(hist) = 1

\* C15: compact with dry_run returns the number of versions a real compact
\* would remove and leaves the version list as it was.
C15_DryRunDeletesNothing ==
    (vlast.op = "compact" /\ vlast.dryRun) =>
        /\ hist = vlast.before
        /\ vlast.removed = Len(vlast.before) - Len(Collapse(vlast.before))

\* a dry run over a history with two consecutive duplicates
C15_Witness ==
    /\ vlast.op = "compact" /\ vlast.dryRun
    /\ vlast.removed = 2 /\ Len(hist) = 4

\* C16: write_if_changed writes exactly one new version and returns true
\* when the fingerprint of the content differs from the current version's
\* (or there is no version), and writes nothing and returns false when it
\* is equal; the same call made twice in a row returns true then false and
\* adds one version in all.
C16_WriteIfChanged ==
    vlast.op = "write_if_changed" =>
        LET b == vlast.before
            differs == b = <<>> \/ Fingerprint(b[Len(b)].data) # Fingerprint(vlast.data)
        IN  /\ vlast.changed = differs
            /\ differs => /\ Len(hist) = Len(b) + 1
                          /\ SubSeq(hist, 1, Len(b)) = b
                          /\ hist[Len(hist)].data = vlast.data
            /\ ~differs => hist = b
            /\ vlast.repeat => ~vlast.changed /\ hist = b

\* the second of two identical calls, the first of which wrote
C16_Witness ==
    /\ vlast.op = "write_if_changed" /\ vlast.repeat
    /\ ~vlast.changed /\ Len(hist) >= 2

ListedIds(h) ==
    [i \in 1..Len(h) |-> GetVersions(VProtocol, h)[i].version_id]

C19_DeleteIdempotent ==
    (/\ dlast.op = "delete" /\ dlast.prev.op = "delete"
     /\ dlast.prev.stack = dlast.stack /\ dlast.prev.path = dlast.path
     /\ dlast.prev.raised = "ok"
     /\ ~dlast.mustExist /\ ~dlast.prev.mustExist)
        => dlast.raised = "ok" /\ dfs[dlast.path] = "absent"

\* a non-empty directory before the last delete
NonEmptyDirBefore ==
    dlast.before[dlast.path] = "dir" /\ HasChildren(dlast.before, dlast.path)

PolicyInForce ==
    IF wlast.arg \in {"kw_true", "pos_true"} THEN TRUE
    ELSE IF wlast.arg \in {"kw_false", "pos_false"} THEN FALSE
    ELSE wlast.nodeAutocreate

\* C21: before a write the parent path is resolved: when the policy in
\* force says not to create parents and the parent does not exist the write
\* fails with FileNotFoundError and nothing is written; when it says to
\* create them the parent exists when the write is performed.
C21_ParentResolvedBeforeWrite ==
    (wlast.op = "write" /\ Parent(wlast.path) # <<>>) =>
        /\ (~PolicyInForce /\ wlast.before[Parent(wlast.path)] = "absent") =>
              wlast.raised = "FileNotFoundError" /\ wfs = wlast.before
        /\ (PolicyInForce /\ wlast.ran) => wlast.parentAtWrite

\* C22: configure is idempotent per name: supplying to configure a record
\* that the call before configured successfully succeeds again and leaves
\* one mount under that name, built from that record.
C22_ConfigureIdempotent ==
    (alast.op \in {"configure", "sync_configure"} /\ alast.again) =>
        /\ alast.raised = "ok"
        /\ alast.op = "configure" =>
              \E n \in TableNames : atable[n] # 0 /\ atable[n] = Len(aimpl)
        /\ alast.op = "sync_configure" =>
              \E n \in TableNames : stable[n].type # "<none>"

\* C23: configure closes the adapter of a record it replaces: no implementor
\* that has left the mount table is still open.
C23_ReplacedAdapterClosed ==
    \A i \in 1..Len(aimpl) :
        aimpl[i].status = "open" => \E n \in TableNames : atable[n] = i

\* C24: configuring an http mount (a read-only protocol) with permissions
\* readwrite or delete fails at configure time and installs no mount under
\* that name.
C24_ReadOnlyProtocolRejectsWrite ==
    (/\ alast.op \in {"configure", "sync_configure"}
     /\ alast.protocol = "http"
     /\ alast.permissions \in {"readwrite", "delete"})
        => /\ alast.raised \notin {"ok"}
           /\ ~alast.installed

\* C25: an address with no ':' is taken as a mount name with an empty
\* path: for the configured mount m, node("m") returns the root node of m
\* (full address "m:") and does not fail.
C25_BareMountNameIsRoot ==
    (aerr # "none" /\ ~HasPiece(addr, ":") /\ addr \in AddrMounts) =>
        /\ aerr = "ok"
        /\ anode.mount = addr /\ anode.path = <<>>
        /\ NodeFullPath(anode) = addr \o <<":">>

\* C26: address parsing is idempotent: for an address that parsed, parsing
\* mount + ':' + path again gives the same mount and path, and that path has
\* no leading or trailing separator, no empty segment and no '..' segment.
C26_ParseIdempotent ==
    (aerr = "ok") =>
        /\ ParseBy(anode.api, NodeFullPath(anode)).err = "ok"
        /\ ParseBy(anode.api, NodeFullPath(anode)).mount = anode.mount
        /\ ParseBy(anode.api, NodeFullPath(anode)).path = anode.path
        /\ anode.path # <<>> =>
              \A i \in DOMAIN SplitAll(anode.path) :
                  SplitAll(anode.path)[i] \notin {<<>>, <<"..">>}

\* C27: last registration wins: get_protocol(name) returns, without error,
\* the descriptor given by the most recent registration of that name, in
\* either registry.
C27_LastRegistrationWins ==
    (rlast.op = "get_protocol" /\ latest[rlast.api][rlast.name] # NoLatest) =>
        /\ rlast.raised = "ok"
        /\ rlast.desc = latest[rlast.api][rlast.name].desc

ProgressEvents == SelectSeq(glast.events, LAMBDA e : e.ev = "progress")
DecisionEvents == SelectSeq(glast.events, LAMBDA e : e.ev \in {"skip", "copy"})
EventIndex(ev, k) ==
    CHOOSE i \in DOMAIN glast.events :
        /\ glast.events[i].ev \in ev
        /\ Len(SelectSeq(SubSeq(glast.events, 1, i), LAMBDA e : e.ev \in ev)) = k

\* C28: in a directory copy over N files with a progress callback, progress
\* is called exactly N times, once per file whether skipped or copied, each
\* call after the decision for that file and before the decision for the
\* next, with index 1..N in order and the same total N, the number of files
\* counted before the first one is processed.
C28_ProgressOncePerFile ==
    (glast.op = "copy" /\ glast.progress) =>
        /\ Len(ProgressEvents) = Cardinality(gsrc)
        /\ Len(DecisionEvents) = Cardinality(gsrc)
        /\ glast.total = Cardinality(gsrc)
        /\ \A k \in 1..Len(ProgressEvents) :
              /\ ProgressEvents[k].idx = k
              /\ ProgressEvents[k].total = Cardinality(gsrc)
              /\ ProgressEvents[k].name = DecisionEvents[k].name
              /\ EventIndex({"skip", "copy"}, k) < EventIndex({"progress"}, k)
              /\ k < Len(ProgressEvents) =>
                    EventIndex({"progress"}, k) < EventIndex({"skip", "copy"}, k + 1)

\* a copy of three files with progress, of which one is skipped and one copied
C28_Witness ==
    /\ glast.op = "copy" /\ glast.progress
    /\ Len(ProgressEvents) = 3
    /\ \E i, j \in DOMAIN DecisionEvents :
          DecisionEvents[i].ev = "skip" /\ DecisionEvents[j].ev = "copy"

\* C29: writes started together on different addresses do not interfere:
\* once all of them have completed, under whatever order their steps ran,
\* the address of every write that returned holds the content that write was
\* given, and with parents created on demand every write returns.
C29_ConcurrentWritesIndependent ==
    (\A t \in Tasks : Finished(t)) =>
        /\ \A t \in Tasks : ctask[t].pc = "done" => cfs[TaskPaths[t]] = ctask[t].data
        /\ \A t \in Tasks : ctask[t].create => ctask[t].pc = "done"

\* two writes with different contents into one directory, both returned,
\* their steps interleaved
C29_Witness ==
    /\ \A t \in Tasks : ctask[t].pc = "done"
    /\ ctask[1].data # ctask[2].data
    /\ coverlap

\* C30: move never loses the moved content: when move(dest) returns without
\* error, the content the source held before the call is at the destination
\* afterwards, also when the destination is the source's own address.
C30_MoveKeepsContent ==
    (mvlast.op = "move" /\ mvlast.raised = "ok") =>
        /\ mvlast.content # "absent"
        /\ mvfs[mvlast.dst] = mvlast.content

====
